---- MODULE Spec2Model ----
(***************************************************************************)
(* A model of the chat pipeline of services/ai-service: the orchestrator's *)
(* process_message, the input and output guards, the sentiment monitor,    *)
(* the intent classifier and the skill agents.                             *)
(*                                                                         *)
(* Texts are sequences of tokens.  A fixed message of the code is a        *)
(* one-token sequence holding that message; a text produced by the         *)
(* completion service or a tool lookup is a sequence of word tokens.  The  *)
(* collaborators (completion service, toxicity scorer, entity recognizer,  *)
(* tool lookups) are nondeterministic: each call returns one of a bounded  *)
(* set of values or raises.                                                *)
(***************************************************************************)
EXTENDS Integers, Sequences, FiniteSets, TLC

VARIABLES
    pc,                   \* position of the request inside process_message
    user_message,         \* argument user_message
    user_id,              \* argument user_id
    conversation_id,      \* argument conversation_id ("" is None)
    conversation,         \* local conversation: {} is None, else {id}
    conversation_history, \* local conversation_history
    conversations,        \* durable store: Conversation rows
    messages,             \* durable store: Message rows, in creation order
    executions,           \* durable store: AgentExecution rows, in creation order
    next_id,              \* source of fresh identifiers (uuid4)
    calls,                \* collaborator calls made for the request, in order
    faults,               \* collaborator calls of the current stage that raised
    iv,                   \* (is_valid, validation_msg, validation_details)
    sentiment_result,     \* local sentiment_result
    intent,               \* local intent
    response_text,        \* local response_text
    tool_calls,           \* local tool_calls
    agent_type_label,     \* local agent_type_label
    ov,                   \* (out_valid, out_msg, out_details)
    envelope,             \* value returned by process_message: {} until it returns
    fn_in,                \* input of the pure function under check
    fn_out,               \* its result
    requests,             \* concurrent requests: the locals of each process_message
    writers               \* <<record id, request>>: the request wrote the record

vars == << pc, user_message, user_id, conversation_id, conversation,
           conversation_history, conversations, messages, executions, next_id,
           calls, faults, iv, sentiment_result, intent, response_text,
           tool_calls, agent_type_label, ov, envelope, fn_in, fn_out, requests, writers >>

(***************************************************************************)
(* Bounds of the model.                                                    *)
(***************************************************************************)
MaxRawLen == 3

(***************************************************************************)
(* Character-level helpers: str.strip() and str.upper() on a classifier's  *)
(* raw reply, a sequence of characters.                                    *)
(***************************************************************************)
RawAlphabet == {"Y", "y", "N", " "}

RECURSIVE SeqsUpTo(_, _)
SeqsUpTo(S, n) ==
    IF n = 0 THEN {<< >>}
    ELSE LET shorter == SeqsUpTo(S, n - 1)
         IN  shorter \cup {Append(s, c) : s \in {t \in shorter : Len(t) = n - 1}, c \in S}

RawTexts == SeqsUpTo(RawAlphabet, MaxRawLen)

IsSpace(c) == c \in {" ", "\n", "\t"}

RECURSIVE LStrip(_)
LStrip(s) ==
    IF s = << >> THEN s
    ELSE IF IsSpace(Head(s)) THEN LStrip(Tail(s)) ELSE s

RECURSIVE RStrip(_)
RStrip(s) ==
    IF s = << >> THEN s
    ELSE IF IsSpace(s[Len(s)]) THEN RStrip(SubSeq(s, 1, Len(s) - 1)) ELSE s

Strip(s) == RStrip(LStrip(s))

UpperChar(c) ==
    CASE c = "y" -> "Y"
      [] c = "n" -> "N"
      [] OTHER -> c

Upper(s) == [i \in 1..Len(s) |-> UpperChar(s[i])]

(***************************************************************************)
(* A reply of a collaborator: it raised, or it returned content.           *)
(***************************************************************************)
Raise == [raised |-> TRUE, content |-> << >>]
Reply(c) == [raised |-> FALSE, content |-> c]

ClassifierReplies == {Raise} \cup {Reply(r) : r \in RawTexts}

(***************************************************************************)
(* InputValidationAgent                                                    *)
(***************************************************************************)
toxicity_threshold == 70

INJECTION_MSG == <<"Prompt injection detected. Your query has been blocked for security reasons.">>
TOXIC_MSG == <<"Toxic content detected. Please rephrase your query respectfully.">>
OFF_TOPIC_MSG == <<"I can only help with e-commerce related queries such as order tracking, product information, account management, and customer service. Please ask me about your orders, products, or shopping needs.">>
VALIDATED_MSG == <<"User query validated successfully.">>

\* faulty variant: the reply is compared without strip() and upper()
check_prompt_injection_exact(reply) ==
    IF reply.raised THEN FALSE ELSE reply.content = <<"Y">>

\* faulty variant: an error of the completion service counts as an injection
check_prompt_injection_closed(reply) ==
    IF reply.raised THEN TRUE ELSE Upper(Strip(reply.content)) = <<"Y">>

check_prompt_injection(reply) ==
    IF reply.raised THEN FALSE ELSE Upper(Strip(reply.content)) = <<"Y">>

\* Toxicity scores are in hundredths (a score of 0.71 is 71, and 71 percent).
InputToxScores == {0, 70, 71}
ScorerReplies == {Raise} \cup {Reply(s) : s \in InputToxScores}

check_toxicity(reply) ==
    IF reply.raised THEN [toxic |-> FALSE, scores |-> {}]
    ELSE [toxic |-> reply.content > toxicity_threshold,
          scores |-> {<<"toxicity", reply.content>>}]

check_topic_relevance(reply) ==
    IF reply.raised THEN FALSE ELSE Upper(Strip(reply.content)) = <<"Y">>

Details0 == [prompt_injection |-> FALSE, toxic |-> FALSE, off_topic |-> FALSE, scores |-> {}]
IvNone == [is_valid |-> FALSE, message |-> << >>, details |-> Details0]

(***************************************************************************)
(* JSON: a completion's text is a token sequence; a JSON document is one   *)
(* token.  json.loads accepts a text made of exactly one document.  The    *)
(* token "<fence>" is a markdown code fence (three backquotes).            *)
(***************************************************************************)
JObject(s, f, e, r) ==
    [type |-> "object", sentiment |-> s, frustration_level |-> f,
     escalation_recommended |-> e, reason |-> r]
JOther(t) ==
    [type |-> t, sentiment |-> "absent", frustration_level |-> "absent",
     escalation_recommended |-> "absent", reason |-> "absent"]
JDecodeError == JOther("JSONDecodeError")
EmptyDict == JObject("absent", "absent", "absent", "absent")

SentimentDocs == {"{calm}", "{escalate}", "{frustrated}", "[]"}
SentimentDoc(d) ==
    CASE d = "{calm}" -> JObject("neutral", "low", "false", "llm")
      [] d = "{escalate}" -> JObject("very_negative", "critical", "true", "llm")
      [] d = "{frustrated}" -> JObject("negative", "high", "false", "llm")
      [] d = "[]" -> JOther("array")

\* Python truthiness of a JSON value held in a dict (absent is dict.get's None).
Truthy(v) == v \notin {"absent", "false", "null", "0"}

HasNewline(text) == \E i \in 1..Len(text) : text[i] = "\n"
FirstNewline(text) == CHOOSE i \in 1..Len(text) : text[i] = "\n" /\ \A j \in 1..(i - 1) : text[j] # "\n"

\* text.split("\n", 1)[1] if "\n" in text else text[3:], for a text that
\* starts with a fence token
DropOpeningFence(text) ==
    IF HasNewline(text) THEN SubSeq(text, FirstNewline(text) + 1, Len(text))
    ELSE IF Head(text) = "<fence>" THEN Tail(text)
    ELSE <<"json">> \o Tail(text)

StripFences(content) ==
    LET t0 == Strip(content)
        t1 == IF t0 # << >> /\ Head(t0) \in {"<fence>", "<fence>json"} THEN DropOpeningFence(t0) ELSE t0
        t2 == IF t1 # << >> /\ t1[Len(t1)] = "<fence>" THEN SubSeq(t1, 1, Len(t1) - 1) ELSE t1
    IN  Strip(t2)

(***************************************************************************)
(* SentimentAnalysisAgent                                                  *)
(***************************************************************************)
SentimentDefault == JObject("neutral", "low", "false", "Unable to determine sentiment")

ESCALATION_MSG == <<"I understand your frustration, and I sincerely apologize for the inconvenience. I'm escalating your case to a senior support specialist who can provide more direct assistance. They will reach out to you shortly. In the meantime, is there anything else I can help with?">>
EMPATHY_MSG == <<"I can see this has been a difficult experience, and I truly want to help resolve this for you. Let me look into this right away. Could you share more details so I can assist you better?">>

SentimentReplies ==
    {Raise} \cup
    {Reply(c) : c \in {<<"{calm}">>, <<"{escalate}">>, <<"{frustrated}">>,
                       <<"<fence>json", "\n", "{escalate}", "\n", "<fence>">>,
                       <<"[]">>, <<"not", "json">>}}

SentimentAnalysisAgent_analyze(reply) ==
    IF reply.raised THEN SentimentDefault
    ELSE LET text == StripFences(reply.content)
         IN  IF Len(text) = 1 /\ text[1] \in SentimentDocs
             THEN SentimentDoc(text[1])
             ELSE SentimentDefault

\* The canned response of SentimentAnalysisAgent.execute for an analysis that
\* is a dict; << >> is None.
SentimentAnalysisAgent_response(analysis) ==
    IF Truthy(analysis.escalation_recommended) THEN ESCALATION_MSG
    ELSE IF analysis.frustration_level \in {"high", "critical"} THEN EMPATHY_MSG
    ELSE << >>

(***************************************************************************)
(* IntentDetectionAgent                                                    *)
(***************************************************************************)
VALID_INTENTS ==
    <<"customer_info", "order_tracking", "product_search", "payment_info",
      "recommendation", "sentiment_escalation", "general">>
ValidIntentSet == {VALID_INTENTS[i] : i \in 1..Len(VALID_INTENTS)}

\* str.lower() of a reply token
LowerTok(t) ==
    CASE t = "Order_Tracking" -> "order_tracking"
      [] OTHER -> t

\* the labels that are substrings of a (lower-case) reply token
LabelsIn(t) ==
    CASE t \in ValidIntentSet -> {t}
      [] t = "payment_info." -> {"payment_info"}
      [] t = "general_order_tracking" -> {"general", "order_tracking"}
      [] OTHER -> {}

IntentReplies ==
    {Raise} \cup
    {Reply(<<l>>) : l \in ValidIntentSet} \cup
    {Reply(c) : c \in {<<"Order_Tracking", "\n">>, <<"intent:", "payment_info.">>,
                       <<"general_order_tracking">>, <<"billing">>}}

\* faulty variant: a reply that matches no label is returned as it is
IntentDetectionAgent_detect_raw(reply) ==
    IF reply.raised THEN "general"
    ELSE LET text == Strip(reply.content)
         IN  IF Len(text) = 1 THEN LowerTok(text[1]) ELSE "general"

IntentDetectionAgent_detect(reply) ==
    IF reply.raised THEN "general"
    ELSE LET text == Strip(reply.content)
             low == [i \in 1..Len(text) |-> LowerTok(text[i])]
             contained == UNION {LabelsIn(low[i]) : i \in 1..Len(low)}
         IN  IF Len(low) = 1 /\ low[1] \in ValidIntentSet THEN low[1]
             ELSE IF contained # {}
                  THEN VALID_INTENTS[CHOOSE i \in 1..Len(VALID_INTENTS) :
                          /\ VALID_INTENTS[i] \in contained
                          /\ \A j \in 1..(i - 1) : VALID_INTENTS[j] \notin contained]
                  ELSE "general"

(***************************************************************************)
(* Skill agents.  A tool-call parameter set is a set of <<key, text>>.     *)
(***************************************************************************)
UserMessages ==
    { <<"where", "is", "my", "order", "ord-10001", "?">>,
      <<"what", "is", "my", "order", "status">>,
      <<"recommend", "electronics", "for", "CUST-2001">> }

\* re.search(r"ORD-\d+", token, re.IGNORECASE).group(0).upper(), "" for no match
MatchOrderId(t) == CASE t = "ord-10001" -> "ORD-10001" [] OTHER -> ""
\* re.search(r"CUST-\d+", token, re.IGNORECASE).group(0).upper(), "" for no match
MatchCustomerId(t) == CASE t = "CUST-2001" -> "CUST-2001" [] OTHER -> ""

FirstIndex(text, P(_)) == CHOOSE i \in 1..Len(text) : P(text[i]) /\ \A j \in 1..(i - 1) : ~P(text[j])

\* the first match in the query, "None" when there is none
_extract_order_id(query) ==
    LET Hit(t) == MatchOrderId(t) # ""
    IN  IF \E i \in 1..Len(query) : Hit(query[i])
        THEN MatchOrderId(query[FirstIndex(query, Hit)]) ELSE "None"

_extract_customer_id(query) ==
    LET Hit(t) == MatchCustomerId(t) # ""
    IN  IF \E i \in 1..Len(query) : Hit(query[i])
        THEN MatchCustomerId(query[FirstIndex(query, Hit)]) ELSE "None"

CATEGORIES == <<"electronics", "clothing", "home", "books", "sports">>
Capitalize(c) ==
    CASE c = "electronics" -> "Electronics" [] c = "clothing" -> "Clothing"
      [] c = "home" -> "Home" [] c = "books" -> "Books" [] c = "sports" -> "Sports"

\* the categories that are substrings of query.lower(): those of its tokens
CategoriesIn(query) == {CATEGORIES[k] : k \in 1..Len(CATEGORIES)} \cap {query[i] : i \in 1..Len(query)}

_extract_category(query) ==
    IF CategoriesIn(query) = {} THEN "None"
    ELSE Capitalize(CATEGORIES[CHOOSE k \in 1..Len(CATEGORIES) :
             /\ CATEGORIES[k] \in CategoriesIn(query)
             /\ \A j \in 1..(k - 1) : CATEGORIES[j] \notin CategoriesIn(query)])

CUSTOMER_ID_PROMPT == <<"Could you please provide your customer ID? It should be in the format CUST-XXXX.">>
ORDER_ID_PROMPT == <<"Could you please provide your order ID? It should be in the format ORD-XXXXX.">>
PAYMENT_ID_PROMPT == <<"Could you please provide the order ID for the payment you are inquiring about? Format: ORD-XXXXX.">>

ToolReplies == {Raise, Reply(<<"found">>), Reply(<<"not", "found">>)}
NarrationReplies ==
    {Raise} \cup
    {Reply(c) : c \in {<<"Your", "order", "has", "shipped">>,
                       <<" ", "Alice", "in", "Paris", "will", "always", "help", "\n">>,
                       <<"always", "never", "all", "none", "every", "everybody", "nobody">>}}

\* faulty variant: a failed narration gives an empty response
_format_response_empty(tool_result, narration) ==
    IF narration.raised THEN << >> ELSE Strip(narration.content)

\* _format_response: the narration, or the raw tool result when it fails
_format_response(tool_result, narration) ==
    IF narration.raised THEN tool_result ELSE Strip(narration.content)

SkillReturn(response, tcalls, invoked) ==
    [raised |-> FALSE, response |-> response, tool_calls |-> tcalls, invoked |-> invoked]
SkillRaise(invoked) ==
    [raised |-> TRUE, response |-> << >>, tool_calls |-> << >>, invoked |-> invoked]

\* an agent that extracts one identifier, looks it up and narrates the result
LookupAgent(id, key, tool, prompt, lookup, narration) ==
    IF id = "None" THEN SkillReturn(prompt, << >>, << >>)
    ELSE IF lookup.raised THEN SkillRaise(<<tool>>)
    ELSE SkillReturn(_format_response(<<tool, id>> \o lookup.content, narration),
                     <<[tool |-> tool, params |-> {<<key, <<id>> >>}]>>,
                     <<tool, "llm:narrate">>)

CustomerSupportAgent_execute(query, lookup, narration) ==
    LookupAgent(_extract_customer_id(query), "customer_id", "lookup_customer_info",
                CUSTOMER_ID_PROMPT, lookup, narration)

OrderTrackingAgent_execute(query, lookup, narration) ==
    LookupAgent(_extract_order_id(query), "order_id", "track_order",
                ORDER_ID_PROMPT, lookup, narration)

PaymentInfoAgent_execute(query, lookup, narration) ==
    LookupAgent(_extract_order_id(query), "order_id", "get_payment_info",
                PAYMENT_ID_PROMPT, lookup, narration)

RecommendationAgent_execute(query, lookup, narration) ==
    LET customer_id == _extract_customer_id(query)
        category == _extract_category(query)
    IN  IF lookup.raised THEN SkillRaise(<<"get_recommendations">>)
        ELSE SkillReturn(
                 _format_response(<<"get_recommendations">> \o lookup.content, narration),
                 <<[tool |-> "get_recommendations",
                    params |-> {<<"customer_id", <<customer_id>> >>, <<"category", <<category>> >>}]>>,
                 <<"get_recommendations", "llm:narrate">>)

\* ProductSearchAgent: the extraction reply's JSON documents
SearchParams(q, c, m) == [type |-> "object", query |-> q, category |-> c, max_results |-> m]
SearchDocs == {"{laptop}", "{toys}", "{max:ten}", "{}", "[]"}
SearchDoc(d) ==
    CASE d = "{laptop}" -> SearchParams(<<"laptop">>, <<"Electronics">>, <<"5">>)
      [] d = "{toys}" -> SearchParams(<<"robot">>, <<"Toys">>, <<"3">>)
      [] d = "{max:ten}" -> SearchParams(<<"laptop">>, <<"None">>, <<"ten">>)
      [] d = "{}" -> SearchParams(<<"absent">>, <<"absent">>, <<"absent">>)
      [] d = "[]" -> [type |-> "array", query |-> <<"absent">>, category |-> <<"absent">>,
                      max_results |-> <<"absent">>]

ExtractionReplies ==
    {Raise} \cup
    {Reply(c) : c \in {<<"{laptop}">>, <<"<fence>json", "\n", "{laptop}", "\n", "<fence>">>,
                       <<"{toys}">>, <<"{max:ten}">>, <<"{}">>, <<"[]">>, <<"Sure!", "{laptop}">>}}

_extract_search_params(query, reply) ==
    LET fallback == SearchParams(query, <<"None">>, <<"5">>)
    IN  IF reply.raised THEN fallback
        ELSE LET text == StripFences(reply.content)
             IN  IF Len(text) = 1 /\ text[1] \in SearchDocs /\ SearchDoc(text[1]).type = "object"
                 THEN LET d == SearchDoc(text[1])
                      IN  SearchParams(
                              IF d.query = <<"absent">> THEN query ELSE d.query,
                              IF d.category = <<"absent">> THEN <<"None">> ELSE d.category,
                              IF d.max_results = <<"absent">> THEN <<"5">> ELSE d.max_results)
                 ELSE fallback

\* search_products slices the result with max_results: a value that is not
\* an integer raises
IntegerTexts == {<<"3">>, <<"5">>}

ProductSearchAgent_execute(query, extraction, lookup, narration) ==
    LET params == _extract_search_params(query, extraction)
        pset == {<<"query", params.query>>, <<"category", params.category>>,
                 <<"max_results", params.max_results>>}
    IN  IF lookup.raised \/ params.max_results \notin IntegerTexts
        THEN SkillRaise(<<"llm:extract", "search_products">>)
        ELSE SkillReturn(
                 _format_response(<<"search_products">> \o lookup.content, narration),
                 <<[tool |-> "search_products", params |-> pset]>>,
                 <<"llm:extract", "search_products", "llm:narrate">>)

GENERAL_FALLBACK_MSG == <<"Thank you for your question. For general inquiries, please check our FAQ page or contact our support team directly. Is there anything specific about your order, product, or account I can help with?">>

_handle_general_query(reply) ==
    IF reply.raised THEN GENERAL_FALLBACK_MSG ELSE Strip(reply.content)

_intent_to_agent_type(i) ==
    CASE i = "customer_info" -> "customer_support"
      [] i = "order_tracking" -> "order_tracking"
      [] i = "product_search" -> "product_search"
      [] i = "payment_info" -> "payment_info"
      [] i = "recommendation" -> "recommendation"
      [] i = "sentiment_escalation" -> "sentiment_analysis"
      [] i = "general" -> "orchestrator"
      [] OTHER -> "orchestrator"

\* the keys of AgentOrchestrator._agents
AgentIntents == {"customer_info", "order_tracking", "product_search", "payment_info", "recommendation"}

(***************************************************************************)
(* OutputValidationAgent                                                   *)
(***************************************************************************)
\* faulty variant: a score of exactly 0.7 is over the threshold
out_toxicity_threshold_nonstrict == 70 - 1

out_toxicity_threshold == 70

TOXIC_OUTPUT_MSG == <<"Output blocked: high toxicity detected">>
BIAS_OUTPUT_MSG == <<"Output blocked: potential bias detected">>
OUTPUT_PASSED_MSG == <<"Output validation passed">>

OutToxScores == {0, 70, 71}
OutScorerReplies == {Raise} \cup {Reply(x) : x \in OutToxScores}

OutputValidationAgent_check_toxicity(reply) ==
    IF reply.raised THEN 0 ELSE reply.content

\* the one-word bias terms; "no one" is the two words "no", "one"
BIAS_WORDS == {"always", "never", "all", "none", "every", "everybody", "nobody"}

\* bias_count: the number of bias terms that occur in the response as whole words
bias_count(response) ==
    Cardinality(BIAS_WORDS \cap {response[i] : i \in 1..Len(response)})
    + (IF \E i \in 1..(Len(response) - 1) : response[i] = "no" /\ response[i + 1] = "one"
       THEN 1 ELSE 0)

\* min(bias_count * 0.1, 1.0), in hundredths
check_bias(response) ==
    IF bias_count(response) * 10 > 100 THEN 100 ELSE bias_count(response) * 10

\* bias_score > 0.7 in double arithmetic: 7 * 0.1 is 0.7000000000000001
bias_exceeds_threshold(response) == bias_count(response) >= 7

PII_LABELS == {"PERSON", "GPE", "ORG", "DATE", "CARDINAL"}
REDACTED == "[REDACTED]"

\* faulty variant: the entities are replaced from the first to the last
RECURSIVE MaskEntities_forward(_, _, _)
MaskEntities_forward(masked_text, ents, k) ==
    IF k = 0 THEN masked_text
    ELSE LET ent == ents[Len(ents) - k + 1]
             next == IF ent.label \in PII_LABELS
                     THEN SubSeq(masked_text, 1, ent.start_char) \o <<REDACTED>>
                          \o SubSeq(masked_text, ent.end_char + 1, Len(masked_text))
                     ELSE masked_text
         IN  MaskEntities_forward(next, ents, k - 1)

\* the entities from the k-th down to the first, each replaced when its label
\* is one of PII_LABELS (for ent in reversed(doc.ents))
RECURSIVE MaskEntities(_, _, _)
MaskEntities(masked_text, ents, k) ==
    IF k = 0 THEN masked_text
    ELSE LET ent == ents[k]
             next == IF ent.label \in PII_LABELS
                     THEN SubSeq(masked_text, 1, ent.start_char) \o <<REDACTED>>
                          \o SubSeq(masked_text, ent.end_char + 1, Len(masked_text))
                     ELSE masked_text
         IN  MaskEntities(next, ents, k - 1)

\* faulty variant: a failure of the recognizer redacts the whole text
detect_and_mask_pii_closed(text, ner) ==
    IF ner.raised THEN <<REDACTED>> ELSE MaskEntities(text, ner.content, Len(ner.content))

detect_and_mask_pii(text, ner) ==
    IF ner.raised THEN text ELSE MaskEntities(text, ner.content, Len(ner.content))

\* what the recognizer may report for a text: nothing, or one entity over one
\* of its first two tokens
Entity(l, a, b) == [label |-> l, start_char |-> a, end_char |-> b]
NerReplies(text) ==
    {Raise, Reply(<< >>)} \cup
    {Reply(<<Entity(l, a, a + 1)>>) : l \in {"PERSON", "MONEY"},
                                      a \in {x \in {0, 1} : x < Len(text)}}

OvDetails0 == [toxicity_score |-> 0, bias_score |-> 0, pii_masked |-> FALSE, masked_response |-> << >>]
OvNone == [is_valid |-> FALSE, message |-> << >>, details |-> OvDetails0, invoked |-> << >>, raised |-> {}]

OutputValidationAgent_validate(agent_response, tox, ner) ==
    LET tox_score == OutputValidationAgent_check_toxicity(tox)
        d1 == [OvDetails0 EXCEPT !.toxicity_score = tox_score]
        d2 == [d1 EXCEPT !.bias_score = check_bias(agent_response)]
        masked == detect_and_mask_pii(agent_response, ner)
        toxf == IF tox.raised THEN {"detoxify:output"} ELSE {}
        nerf == IF ner.raised THEN {"spacy:ner"} ELSE {}
    IN  IF tox_score > out_toxicity_threshold
        THEN [is_valid |-> FALSE, message |-> TOXIC_OUTPUT_MSG, details |-> d1,
              invoked |-> <<"detoxify:output">>, raised |-> toxf]
        ELSE IF bias_exceeds_threshold(agent_response)
        THEN [is_valid |-> FALSE, message |-> BIAS_OUTPUT_MSG, details |-> d2,
              invoked |-> <<"detoxify:output">>, raised |-> toxf]
        ELSE [is_valid |-> TRUE, message |-> OUTPUT_PASSED_MSG,
              details |-> IF masked # agent_response
                          THEN [d2 EXCEPT !.pii_masked = TRUE, !.masked_response = masked]
                          ELSE d2,
              invoked |-> <<"detoxify:output", "spacy:ner">>, raised |-> toxf \cup nerf]

(***************************************************************************)
(* The durable store and the request.                                      *)
(***************************************************************************)
ANONYMOUS == "anonymous"
USER_A == "7c9e6679-7425-40de-944b-e07fc1f90ae7"
USER_B == "0b8f1c1e-52e4-4c7b-9d3a-1f2e3d4c5b6a"
UserIds == {ANONYMOUS, USER_A}

\* faulty variant: every user identifier is taken for a UUID
IsUUID_any(u) == TRUE

\* uuid.UUID(str(user_id)) succeeds
IsUUID(u) == u \in {USER_A, USER_B}

\* conversation identifiers a request may name: 0 is None, 1 exists, 9 does not
ConversationIds == {0, 1, 9}
FirstFreshId == 10

\* a Conversation row.  Timestamps are logical: a row created by a request
\* carries the value of the identifier counter at the write, the rows that
\* exist before the request carry 0.  updated_at is written by save() only
\* (auto_now), and created_at by the insert.
ConversationRow(id, owner, now) == [id |-> id, user_id |-> owner, updated_at |-> now]

MessageRow(id, conv, role, content, status, tcalls) ==
    [id |-> id, conversation |-> conv, role |-> role, content |-> content,
     validation_status |-> status, tool_calls |-> tcalls]
ExecutionRow(id, agent_type, input_data) ==
    [id |-> id, agent_type |-> agent_type, status |-> "running",
     input_data |-> input_data, output_data |-> << >>]

\* text[:n]
Truncate(text, n) == SubSeq(text, 1, IF Len(text) < n THEN Len(text) ELSE n)

HISTORY_LIMIT == 20

\* conversation.messages.order_by("created_at").values("role", "content")[:20]
RECURSIVE MessagesOf(_, _)
MessagesOf(rows, conv) ==
    IF rows = << >> THEN << >>
    ELSE IF Head(rows).conversation = conv
         THEN <<[role |-> Head(rows).role, content |-> Head(rows).content]>>
              \o MessagesOf(Tail(rows), conv)
         ELSE MessagesOf(Tail(rows), conv)

BuildHistory(rows, conv) ==
    LET all == MessagesOf(rows, conv)
    IN  SubSeq(all, 1, IF Len(all) < HISTORY_LIMIT THEN Len(all) ELSE HISTORY_LIMIT)

Envelope(conv_id, msg_id, text, agent_type, intent_label, status, tcalls, meta) ==
    [conversation_id |-> conv_id, message_id |-> msg_id, response |-> text,
     agent_type |-> agent_type, intent |-> intent_label, validation_status |-> status,
     tool_calls |-> tcalls, metadata |-> meta]

\* Persist the assistant message when a conversation exists and build the
\* envelope (Message.objects.create followed by _build_response).  Identifiers
\* not taken from a stored row are fresh.  msg_tcalls is the tool_calls
\* argument of Message.objects.create (the column's default is the empty
\* list), tcalls the tool_calls argument of _build_response.
_build_response(text, agent_type, intent_label, status, msg_tcalls, tcalls, meta_keys) ==
    IF conversation # {}
    THEN LET cid == CHOOSE c \in conversation : TRUE
         IN  /\ messages' = Append(messages,
                    MessageRow(next_id, cid, "assistant", text, status, msg_tcalls))
             /\ envelope' = {Envelope(cid, next_id, text, agent_type, intent_label,
                                      status, tcalls, {"elapsed_ms"} \cup meta_keys)}
             /\ next_id' = next_id + 1
    ELSE /\ messages' = messages
         /\ envelope' = {Envelope(next_id, next_id + 1, text, agent_type, intent_label,
                                  status, tcalls, {"elapsed_ms"} \cup meta_keys)}
         /\ next_id' = next_id + 2

\* exec.output_data = ...; exec.status = ...; exec.save(), on the row of the
\* stage in progress: the last one created
SaveExecution(rows, status, output_data) ==
    [rows EXCEPT ![Len(rows)].status = status, ![Len(rows)].output_data = output_data]

Init ==
    /\ pc = "start"
    /\ user_message \in UserMessages
    /\ user_id \in UserIds
    /\ conversation_id \in ConversationIds
    /\ conversation = {}
    /\ conversation_history = << >>
    /\ conversations = {ConversationRow(1, USER_B, 0)}
    /\ messages = <<MessageRow(2, 1, "user", <<"hello">>, "pending", << >>)>>
    /\ executions = << >>
    /\ next_id = FirstFreshId
    /\ calls = << >>
    /\ faults = {}
    /\ iv = IvNone
    /\ sentiment_result = EmptyDict
    /\ intent = ""
    /\ response_text = << >>
    /\ tool_calls = << >>
    /\ agent_type_label = ""
    /\ ov = OvNone
    /\ envelope = {}
    /\ requests = << >>
    /\ writers = {}
    /\ fn_in = Raise
    /\ fn_out = {}

(***************************************************************************)
(* process_message, one action per stage step.                             *)
(***************************************************************************)
\* 1. Ensure / create conversation, save the user message, build the history
EnsureConversation ==
    /\ pc = "start"
    /\ pc' = "iv_create"
    /\ IF ~IsUUID(user_id)
       THEN UNCHANGED <<conversation, conversations, messages, conversation_history, next_id>>
       ELSE LET found == conversation_id # 0 /\ \E c \in conversations : c.id = conversation_id
                cid == IF found THEN conversation_id ELSE next_id
                mid == IF found THEN next_id ELSE next_id + 1
                rows == Append(messages, MessageRow(mid, cid, "user", user_message, "pending", << >>))
            IN  /\ conversation' = {cid}
                /\ conversations' = IF found THEN conversations
                                    ELSE conversations \cup {ConversationRow(cid, user_id, next_id)}
                /\ messages' = rows
                /\ conversation_history' = BuildHistory(rows, cid)
                /\ next_id' = mid + 1
    /\ UNCHANGED <<user_message, user_id, conversation_id, executions, calls, faults, iv,
                   sentiment_result, intent, response_text, tool_calls, agent_type_label,
                   ov, envelope, fn_in, fn_out, requests, writers>>

\* 2. Input validation: the AgentExecution row is created in status running
CreateInputValidationExecution ==
    /\ pc = "iv_create"
    /\ pc' = "iv_injection"
    /\ executions' = Append(executions, ExecutionRow(next_id, "input_validation", user_message))
    /\ next_id' = next_id + 1
    /\ UNCHANGED <<user_message, user_id, conversation_id, conversation, conversation_history,
                   conversations, messages, calls, faults, iv, sentiment_result, intent,
                   response_text, tool_calls, agent_type_label, ov, envelope, fn_in, fn_out, requests, writers>>

Unchanged_but_guard ==
    UNCHANGED <<user_message, user_id, conversation_id, conversation, conversation_history,
                conversations, messages, executions, next_id, sentiment_result, intent,
                response_text, tool_calls, agent_type_label, ov, envelope, fn_in, fn_out, requests, writers>>

\* faulty variant: validate does not return at an injection verdict
ValidateInjection_no_return ==
    /\ pc = "iv_injection"
    /\ \E reply \in ClassifierReplies :
          LET is_injection == check_prompt_injection(reply)
              details == [Details0 EXCEPT !.prompt_injection = is_injection]
          IN  /\ calls' = Append(calls, "llm:injection")
              /\ faults' = IF reply.raised THEN faults \cup {"llm:injection"} ELSE faults
              /\ iv' = [iv EXCEPT !.details = details]
              /\ pc' = "iv_toxicity"
    /\ Unchanged_but_guard

\* InputValidationAgent.validate, check 1
ValidateInjection ==
    /\ pc = "iv_injection"
    /\ \E reply \in ClassifierReplies :
          LET is_injection == check_prompt_injection(reply)
              details == [Details0 EXCEPT !.prompt_injection = is_injection]
          IN  /\ calls' = Append(calls, "llm:injection")
              /\ faults' = IF reply.raised THEN faults \cup {"llm:injection"} ELSE faults
              /\ IF is_injection
                 THEN /\ iv' = [is_valid |-> FALSE, message |-> INJECTION_MSG, details |-> details]
                      /\ pc' = "iv_return"
                 ELSE /\ iv' = [iv EXCEPT !.details = details]
                      /\ pc' = "iv_toxicity"
    /\ Unchanged_but_guard

\* InputValidationAgent.validate, check 2
ValidateToxicity ==
    /\ pc = "iv_toxicity"
    /\ \E reply \in ScorerReplies :
          LET r == check_toxicity(reply)
              details == [iv.details EXCEPT !.toxic = r.toxic, !.scores = r.scores]
          IN  /\ calls' = Append(calls, "detoxify:input")
              /\ faults' = IF reply.raised THEN faults \cup {"detoxify:input"} ELSE faults
              /\ IF r.toxic
                 THEN /\ iv' = [is_valid |-> FALSE, message |-> TOXIC_MSG, details |-> details]
                      /\ pc' = "iv_return"
                 ELSE /\ iv' = [iv EXCEPT !.details = details]
                      /\ pc' = "iv_topic"
    /\ Unchanged_but_guard

\* InputValidationAgent.validate, check 3 and the final return
ValidateTopic ==
    /\ pc = "iv_topic"
    /\ \E reply \in ClassifierReplies :
          LET is_off_topic == check_topic_relevance(reply)
              details == [iv.details EXCEPT !.off_topic = is_off_topic]
          IN  /\ calls' = Append(calls, "llm:topic")
              /\ faults' = IF reply.raised THEN faults \cup {"llm:topic"} ELSE faults
              /\ iv' = IF is_off_topic
                       THEN [is_valid |-> FALSE, message |-> OFF_TOPIC_MSG, details |-> details]
                       ELSE [is_valid |-> TRUE, message |-> VALIDATED_MSG, details |-> details]
              /\ pc' = "iv_return"
    /\ Unchanged_but_guard

\* faulty variant: the guard's verdict is recorded and the request goes on
FinishInputValidation_no_block ==
    /\ pc = "iv_return"
    /\ executions' = SaveExecution(executions, "completed", iv.message)
    /\ faults' = {}
    /\ pc' = "sentiment"
    /\ UNCHANGED <<user_message, user_id, conversation_id, conversation, conversation_history,
                   conversations, calls, iv, sentiment_result, intent, response_text,
                   tool_calls, agent_type_label, ov, fn_in, fn_out, requests, writers, messages, envelope, next_id>>

\* The guard has returned: its row is completed; a rejected message is
\* answered with the guard's message and the request ends.
FinishInputValidation ==
    /\ pc = "iv_return"
    /\ executions' = SaveExecution(executions, "completed", iv.message)
    /\ faults' = {}
    /\ IF ~iv.is_valid
       THEN /\ _build_response(iv.message, "input_validation", "blocked", "flagged", << >>, << >>,
                               {"validation_details"})
            /\ pc' = "done"
       ELSE /\ UNCHANGED <<messages, envelope, next_id>>
            /\ pc' = "sentiment"
    /\ UNCHANGED <<user_message, user_id, conversation_id, conversation, conversation_history,
                   conversations, calls, iv, sentiment_result, intent, response_text,
                   tool_calls, agent_type_label, ov, fn_in, fn_out, requests, writers>>

SentimentTool(query) == <<[tool |-> "sentiment_analysis", params |-> {<<"query", query>>}]>>

\* 3. Sentiment analysis: sentiment_result = analyze(...), then
\* sentiment_result.get("escalation_recommended"), which raises AttributeError
\* when json.loads returned a value that is not a dict
AnalyzeSentiment ==
    /\ pc = "sentiment"
    /\ \E reply \in SentimentReplies :
          LET analysis == SentimentAnalysisAgent_analyze(reply)
          IN  /\ sentiment_result' = analysis
              /\ calls' = Append(calls, "llm:sentiment")
              /\ pc' = IF analysis.type # "object" THEN "raised"
                       ELSE IF Truthy(analysis.escalation_recommended) THEN "sentiment_execute"
                       ELSE "intent_create"
    /\ UNCHANGED <<user_message, user_id, conversation_id, conversation, conversation_history,
                   conversations, messages, executions, next_id, faults, iv, intent,
                   response_text, tool_calls, agent_type_label, ov, envelope, fn_in, fn_out, requests, writers>>

\* escalation_response = sentiment_agent.execute(...): a second analysis, and
\* the request ends with its canned response when it has one
ExecuteSentiment ==
    /\ pc = "sentiment_execute"
    /\ \E reply \in SentimentReplies :
          LET analysis == SentimentAnalysisAgent_analyze(reply)
              response == SentimentAnalysisAgent_response(analysis)
          IN  /\ calls' = Append(calls, "llm:sentiment")
              /\ IF analysis.type # "object"
                 THEN /\ pc' = "raised"
                      /\ UNCHANGED <<messages, envelope, next_id>>
                 ELSE IF response # << >>
                 THEN /\ _build_response(response, "sentiment_analysis", "sentiment_escalation",
                                         "valid", << >>, SentimentTool(user_message),
                                         {"sentiment"})
                      /\ pc' = "done"
                 ELSE /\ pc' = "intent_create"
                      /\ UNCHANGED <<messages, envelope, next_id>>
    /\ UNCHANGED <<user_message, user_id, conversation_id, conversation, conversation_history,
                   conversations, executions, faults, iv, sentiment_result, intent,
                   response_text, tool_calls, agent_type_label, ov, fn_in, fn_out, requests, writers>>

\* 4. Intent detection
CreateIntentExecution ==
    /\ pc = "intent_create"
    /\ pc' = "intent_detect"
    /\ executions' = Append(executions, ExecutionRow(next_id, "intent_detection", user_message))
    /\ next_id' = next_id + 1
    /\ UNCHANGED <<user_message, user_id, conversation_id, conversation, conversation_history,
                   conversations, messages, calls, faults, iv, sentiment_result, intent,
                   response_text, tool_calls, agent_type_label, ov, envelope, fn_in, fn_out, requests, writers>>

\* faulty variant: the intent row is never saved as completed
DetectIntent_unsaved ==
    /\ pc = "intent_detect"
    /\ \E reply \in IntentReplies :
          /\ intent' = IntentDetectionAgent_detect(reply)
          /\ calls' = Append(calls, "llm:intent")
    /\ pc' = "skill_create"
    /\ UNCHANGED <<user_message, user_id, conversation_id, conversation, conversation_history,
                   conversations, messages, next_id, faults, iv, sentiment_result,
                   response_text, tool_calls, agent_type_label, ov, envelope, fn_in, fn_out, requests, writers,
                   executions>>

DetectIntent ==
    /\ pc = "intent_detect"
    /\ \E reply \in IntentReplies :
          /\ intent' = IntentDetectionAgent_detect(reply)
          /\ calls' = Append(calls, "llm:intent")
          /\ executions' = SaveExecution(executions, "completed",
                                         <<IntentDetectionAgent_detect(reply)>>)
    /\ pc' = "skill_create"
    /\ UNCHANGED <<user_message, user_id, conversation_id, conversation, conversation_history,
                   conversations, messages, next_id, faults, iv, sentiment_result,
                   response_text, tool_calls, agent_type_label, ov, envelope, fn_in, fn_out, requests, writers>>

\* 5. Agent execution
CreateSkillExecution ==
    /\ pc = "skill_create"
    /\ pc' = "skill_run"
    /\ agent_type_label' = intent
    /\ tool_calls' = << >>
    /\ response_text' = << >>
    /\ executions' = Append(executions,
                            ExecutionRow(next_id, _intent_to_agent_type(intent), user_message))
    /\ next_id' = next_id + 1
    /\ UNCHANGED <<user_message, user_id, conversation_id, conversation, conversation_history,
                   conversations, messages, calls, faults, iv, sentiment_result, intent,
                   ov, envelope, fn_in, fn_out, requests, writers>>

APOLOGY_MSG == <<"I apologize, but I encountered an error processing your request. Please try again or rephrase your question.">>

\* the dispatched agent's execute, or the general handler
Dispatch(i, query, extraction, lookup, narration) ==
    CASE i = "customer_info" -> CustomerSupportAgent_execute(query, lookup, narration)
      [] i = "order_tracking" -> OrderTrackingAgent_execute(query, lookup, narration)
      [] i = "product_search" -> ProductSearchAgent_execute(query, extraction, lookup, narration)
      [] i = "payment_info" -> PaymentInfoAgent_execute(query, lookup, narration)
      [] i = "recommendation" -> RecommendationAgent_execute(query, lookup, narration)
      [] OTHER -> SkillReturn(_handle_general_query(narration), << >>, <<"llm:general">>)

\* the replies that the dispatched agent consumes
ExtractionRepliesFor(i) == IF i = "product_search" THEN ExtractionReplies ELSE {Raise}
LookupRepliesFor(i) == IF i \in AgentIntents THEN ToolReplies ELSE {Raise}

\* faulty variant: an agent's exception leaves process_message
OnSkillRaise_propagate ==
    /\ pc' = "raised"
    /\ UNCHANGED <<executions, response_text>>

\* faulty variant: the failed agent's row is not saved
OnSkillRaise_unsaved ==
    /\ pc' = "ov_create"
    /\ UNCHANGED executions
    /\ response_text' = APOLOGY_MSG

\* the except branch of the agent execution
OnSkillRaise ==
    /\ pc' = "ov_create"
    /\ executions' = SaveExecution(executions, "failed", <<"error">>)
    /\ response_text' = APOLOGY_MSG

RunSkill ==
    /\ pc = "skill_run"
    /\ \E extraction \in ExtractionRepliesFor(intent), lookup \in LookupRepliesFor(intent),
          narration \in NarrationReplies :
          LET result == Dispatch(intent, user_message, extraction, lookup, narration)
          IN  /\ calls' = calls \o result.invoked
              /\ faults' = IF result.raised THEN {"skill"}
                           ELSE IF narration.raised /\ result.invoked # << >>
                                   /\ result.invoked[Len(result.invoked)] = "llm:narrate"
                           THEN {"llm:narrate"}
                           ELSE {}
              /\ IF result.raised
                 THEN /\ OnSkillRaise
                      /\ UNCHANGED <<tool_calls, agent_type_label>>
                 ELSE /\ response_text' = result.response
                      /\ tool_calls' = result.tool_calls
                      /\ agent_type_label' = IF intent \in AgentIntents THEN intent ELSE "general"
                      /\ executions' = SaveExecution(executions, "completed",
                                                     Truncate(result.response, 1000))
                      /\ pc' = "ov_create"
    /\ UNCHANGED <<user_message, user_id, conversation_id, conversation, conversation_history,
                   conversations, messages, next_id, iv, sentiment_result, intent, ov,
                   envelope, fn_in, fn_out, requests, writers>>

\* 6. Output validation
CreateOutputValidationExecution ==
    /\ pc = "ov_create"
    /\ pc' = "ov_run"
    /\ executions' = Append(executions, ExecutionRow(next_id, "output_validation", Truncate(response_text, 500)))
    /\ next_id' = next_id + 1
    /\ UNCHANGED <<user_message, user_id, conversation_id, conversation, conversation_history,
                   conversations, messages, calls, faults, iv, sentiment_result, intent,
                   response_text, tool_calls, agent_type_label, ov, envelope, fn_in, fn_out, requests, writers>>

RunOutputValidation ==
    /\ pc = "ov_run"
    /\ \E tox \in OutScorerReplies, ner \in NerReplies(response_text) :
          LET r == OutputValidationAgent_validate(response_text, tox, ner)
          IN  /\ ov' = r
              /\ calls' = calls \o r.invoked
              /\ executions' = SaveExecution(executions, "completed", r.message)
    /\ pc' = "finalize"
    /\ UNCHANGED <<user_message, user_id, conversation_id, conversation, conversation_history,
                   conversations, messages, next_id, faults, iv, sentiment_result, intent,
                   response_text, tool_calls, agent_type_label, envelope, fn_in, fn_out, requests, writers>>

SAFETY_APOLOGY_MSG == <<"I apologize, but I cannot provide that response due to safety guidelines. Please rephrase your question.">>
VALIDATION_STATUSES == {"pending", "valid", "invalid", "flagged"}

\* faulty variant: the masked text is computed but not delivered
DeliveredText_unmasked ==
    IF ~ov.is_valid THEN SAFETY_APOLOGY_MSG ELSE response_text

\* faulty variant: a rejected response is delivered as it is
DeliveredText_rejected_passed ==
    IF ov.details.pii_masked THEN ov.details.masked_response ELSE response_text

\* the delivered text and its status, from the output guard's verdict
DeliveredText ==
    IF ~ov.is_valid THEN SAFETY_APOLOGY_MSG
    ELSE IF ov.details.pii_masked THEN ov.details.masked_response
    ELSE response_text

\* faulty variant: the status is one of Message.VALIDATION_STATUS_CHOICES
DeliveredStatus_choices == IF ~ov.is_valid THEN "failed" ELSE "passed"

DeliveredStatus ==
    LET computed == IF ~ov.is_valid THEN "flagged" ELSE "valid"
    IN  IF computed \notin VALIDATION_STATUSES THEN "valid" ELSE computed

\* 7. Save the assistant message and return the envelope
Finalize ==
    /\ pc = "finalize"
    /\ pc' = "done"
    /\ response_text' = DeliveredText
    /\ _build_response(DeliveredText, agent_type_label, intent, DeliveredStatus, tool_calls,
                       tool_calls, {"sentiment", "output_validation"})
    /\ UNCHANGED <<user_message, user_id, conversation_id, conversation, conversation_history,
                   conversations, executions, calls, faults, iv, sentiment_result, intent,
                   tool_calls, agent_type_label, ov, fn_in, fn_out, requests, writers>>

Next ==
    \/ EnsureConversation
    \/ CreateInputValidationExecution
    \/ ValidateInjection
    \/ ValidateToxicity
    \/ ValidateTopic
    \/ FinishInputValidation
    \/ AnalyzeSentiment
    \/ ExecuteSentiment
    \/ CreateIntentExecution
    \/ DetectIntent
    \/ CreateSkillExecution
    \/ RunSkill
    \/ CreateOutputValidationExecution
    \/ RunOutputValidation
    \/ Finalize

Spec == Init /\ [][Next]_vars

(***************************************************************************)
(* The classifiers' verdict functions applied to every raw reply.          *)
(***************************************************************************)
InitClassifier ==
    /\ pc = "fn"
    /\ fn_in \in ClassifierReplies
    /\ fn_out = {}
    /\ user_message = << >>
    /\ user_id = ANONYMOUS
    /\ conversation_id = 0
    /\ conversation = {}
    /\ conversation_history = << >>
    /\ conversations = {}
    /\ messages = << >>
    /\ executions = << >>
    /\ next_id = FirstFreshId
    /\ calls = << >>
    /\ faults = {}
    /\ iv = IvNone
    /\ sentiment_result = EmptyDict
    /\ intent = ""
    /\ response_text = << >>
    /\ tool_calls = << >>
    /\ agent_type_label = ""
    /\ ov = OvNone
    /\ envelope = {}
    /\ requests = << >>
    /\ writers = {}

UnchangedPipeline ==
    UNCHANGED <<user_message, user_id, conversation_id, conversation, conversation_history,
                conversations, messages, executions, next_id, calls, faults, iv,
                sentiment_result, intent, response_text, tool_calls, agent_type_label, ov,
                envelope, fn_in, requests, writers>>

ApplyCheckPromptInjection ==
    /\ pc = "fn"
    /\ pc' = "fn_injection"
    /\ fn_out' = {check_prompt_injection(fn_in)}
    /\ UnchangedPipeline

ApplyCheckTopicRelevance ==
    /\ pc = "fn"
    /\ pc' = "fn_topic"
    /\ fn_out' = {check_topic_relevance(fn_in)}
    /\ UnchangedPipeline

NextClassifier == ApplyCheckPromptInjection \/ ApplyCheckTopicRelevance

SpecClassifier == InitClassifier /\ [][NextClassifier]_vars

(***************************************************************************)
(* IntentDetectionAgent.detect applied to every reply of up to             *)
(* MaxIntentLen words.                                                     *)
(***************************************************************************)
MaxIntentLen == 2
IntentAlphabet ==
    ValidIntentSet \cup {"Order_Tracking", "payment_info.", "general_order_tracking",
                         "billing", " ", "\n"}
IntentTexts == SeqsUpTo(IntentAlphabet, MaxIntentLen)

\* the request variables of a function application: nothing has run
IdlePipeline ==
    /\ user_message = << >>
    /\ user_id = ANONYMOUS
    /\ conversation_id = 0
    /\ conversation = {}
    /\ conversation_history = << >>
    /\ conversations = {}
    /\ messages = << >>
    /\ executions = << >>
    /\ next_id = FirstFreshId
    /\ calls = << >>
    /\ faults = {}
    /\ iv = IvNone
    /\ sentiment_result = EmptyDict
    /\ intent = ""
    /\ response_text = << >>
    /\ tool_calls = << >>
    /\ agent_type_label = ""
    /\ ov = OvNone
    /\ envelope = {}
    /\ requests = << >>
    /\ writers = {}

InitIntent ==
    /\ pc = "fn"
    /\ fn_in \in {Raise} \cup {Reply(t) : t \in IntentTexts}
    /\ fn_out = {}
    /\ IdlePipeline

ApplyDetect ==
    /\ pc = "fn"
    /\ pc' = "fn_detect"
    /\ fn_out' = {IntentDetectionAgent_detect(fn_in)}
    /\ UnchangedPipeline

SpecIntent == InitIntent /\ [][ApplyDetect]_vars

(***************************************************************************)
(* The two toxicity checks applied to every score from 0.00 to MaxScore    *)
(* hundredths, the output guard on a plain, a biased and a named text.     *)
(***************************************************************************)
MaxScore == 100
ThresholdTexts ==
    {<<"Your", "order", "has", "shipped">>,
     <<"always", "never", "all", "none", "every", "everybody", "nobody">>,
     <<"Alice", "in", "Paris">>}
ThresholdInputs ==
    {[raised |-> b, content |-> x, text |-> t, ner |-> n] :
        b \in {FALSE}, x \in 0..MaxScore, t \in ThresholdTexts,
        n \in {Raise, Reply(<< >>), Reply(<<Entity("PERSON", 0, 1)>>)}}
    \cup {[raised |-> TRUE, content |-> 0, text |-> t, ner |-> Reply(<< >>)] : t \in ThresholdTexts}

InitThreshold ==
    /\ pc = "fn"
    /\ fn_in \in ThresholdInputs
    /\ fn_out = {}
    /\ IdlePipeline

ApplyInputCheckToxicity ==
    /\ pc = "fn"
    /\ pc' = "fn_input_toxicity"
    /\ fn_out' = {check_toxicity(fn_in)}
    /\ UnchangedPipeline

ApplyOutputValidate ==
    /\ pc = "fn"
    /\ pc' = "fn_output_validate"
    /\ fn_out' = {OutputValidationAgent_validate(fn_in.text, fn_in, fn_in.ner)}
    /\ UnchangedPipeline

NextThreshold == ApplyInputCheckToxicity \/ ApplyOutputValidate

SpecThreshold == InitThreshold /\ [][NextThreshold]_vars

(***************************************************************************)
(* The A2A and MCP clients (a2a/client.py, mcp/client.py).  A server       *)
(* reply is a refused connection, an HTTP error status, or a 2xx response  *)
(* with a body.  A body is described by what response.json() yields: its   *)
(* JSON type and, for an object, the members the clients look at.  A       *)
(* member is "absent", or named by the type of its value.                  *)
(***************************************************************************)
Body(json, agents, result, tools, error, status) ==
    [json |-> json, agents |-> agents, result |-> result, tools |-> tools,
     error |-> error, status |-> status]
NoBody == Body("none", "absent", "absent", "absent", FALSE, "absent")
ObjectBody(agents, result, tools, error, status) ==
    Body("object", agents, result, tools, error, status)

\* "invalid" is a body that response.json() cannot parse
Bodies ==
    {Body(j, "absent", "absent", "absent", FALSE, "absent") :
        j \in {"invalid", "array", "string", "number", "null"}}
    \cup {ObjectBody("absent", "absent", "absent", FALSE, "absent"),
          ObjectBody("list_of_objects", "absent", "absent", FALSE, "absent"),
          ObjectBody("null", "absent", "absent", FALSE, "absent"),
          ObjectBody("absent", "object", "list_of_objects", FALSE, "absent"),
          ObjectBody("absent", "object", "list_of_strings", FALSE, "absent"),
          ObjectBody("absent", "object", "null", FALSE, "absent"),
          ObjectBody("absent", "object", "absent", FALSE, "completed"),
          ObjectBody("absent", "null", "absent", FALSE, "absent"),
          ObjectBody("absent", "string", "absent", FALSE, "absent"),
          ObjectBody("absent", "absent", "absent", TRUE, "absent"),
          ObjectBody("absent", "absent", "absent", FALSE, "completed")}

HttpReplies ==
    {[kind |-> "connect_error", body |-> NoBody], [kind |-> "http_error", body |-> NoBody]}
    \cup {[kind |-> "ok", body |-> b] : b \in Bodies}

\* a value returned by a client method: its type, its status and error
\* members when it is an object, its elements when it is a list
JVal(type, status, error, elems) ==
    [type |-> type, status |-> status, error |-> error, elems |-> elems]
EmptyList == JVal("array", "absent", FALSE, "none")
ListOf(elems) == JVal("array", "absent", FALSE, elems)
Payload(status, error) == JVal("object", status, error, "none")
PyNone == JVal("null", "absent", FALSE, "none")

Returned(v) == [raised |-> FALSE, value |-> v]
Raised == [raised |-> TRUE, value |-> PyNone]

\* response.raise_for_status() passed and response.json() is a dict
IsDict(reply) == reply.kind = "ok" /\ reply.body.json = "object"

\* the value of a member named by its type
MemberValue(tag, status) ==
    CASE tag = "object" -> Payload(status, FALSE)
      [] tag = "list_of_objects" -> ListOf("objects")
      [] tag = "list_of_strings" -> ListOf("strings")
      [] tag = "string" -> JVal("string", "absent", FALSE, "none")
      [] tag = "null" -> PyNone

\* response.json() returned as it is
BodyValue(body) == JVal(body.json, body.status, body.error, "none")

\* A2AClient.discover_agents and adiscover_agents: data.get("agents", [])
A2AClient_discover_agents(reply) ==
    IF ~IsDict(reply) \/ reply.body.agents = "absent" THEN Returned(EmptyList)
    ELSE Returned(MemberValue(reply.body.agents, "absent"))

\* A2AClient.send_task.  The status member of a body belongs to the object
\* the method returns: the result object when there is one, else the body.
A2AClient_send_task(reply) ==
    IF ~IsDict(reply) THEN Returned(Payload("error", TRUE))
    ELSE IF reply.body.error THEN Returned(Payload("error", TRUE))
    ELSE IF reply.body.result = "absent" THEN Returned(Payload("absent", FALSE))
    ELSE IF reply.body.result = "object" THEN Returned(Payload(reply.body.status, FALSE))
    ELSE Returned(Payload("error", TRUE))

\* A2AClient.asend_task: as send_task, without the test for an error member
A2AClient_asend_task(reply) ==
    IF ~IsDict(reply) THEN Returned(Payload("error", TRUE))
    ELSE IF reply.body.result = "absent" THEN Returned(Payload("absent", FALSE))
    ELSE IF reply.body.result = "object" THEN Returned(Payload(reply.body.status, FALSE))
    ELSE Returned(Payload("error", TRUE))

\* A2AClient.get_task_status, receive_result and their async versions:
\* return response.json()
A2AClient_get_task_status(reply) ==
    IF reply.kind # "ok" \/ reply.body.json = "invalid" THEN Returned(Payload("unknown", TRUE))
    ELSE Returned(BodyValue(reply.body))

\* A2AClient.get_agent_card
A2AClient_get_agent_card(reply) ==
    IF reply.kind # "ok" \/ reply.body.json = "invalid" THEN Returned(Payload("absent", TRUE))
    ELSE Returned(BodyValue(reply.body))

\* A2AClient.health_check and MCPClient.health_check
health_check(reply) ==
    IF reply.kind = "connect_error" THEN Returned(Payload("unreachable", FALSE))
    ELSE IF reply.kind = "http_error" \/ reply.body.json = "invalid"
    THEN Returned(Payload("error", TRUE))
    ELSE Returned(Payload("healthy", FALSE))

\* MCPClient.list_tools and alist_tools: data.get("result", {}).get("tools", [])
MCPClient_list_tools(reply) ==
    IF ~IsDict(reply) \/ reply.body.result # "object" \/ reply.body.tools = "absent"
    THEN Returned(EmptyList)
    ELSE Returned(MemberValue(reply.body.tools, "absent"))

\* MCPClient.call_tool and acall_tool
MCPClient_call_tool(reply) ==
    IF ~IsDict(reply) \/ reply.body.error THEN Returned(Payload("absent", TRUE))
    ELSE IF reply.body.result = "absent" THEN Returned(Payload("absent", FALSE))
    ELSE Returned(MemberValue(reply.body.result, reply.body.status))

\* MCPClient.get_tool_schema: the schema endpoint, and in its except branch
\* a search of list_tools(), whose loop is outside every try: iterating None
\* and calling get on a string raise
MCPClient_get_tool_schema(reply, list_reply) ==
    IF IsDict(reply)
    THEN IF reply.body.result = "absent" THEN Returned(Payload("absent", FALSE))
         ELSE Returned(MemberValue(reply.body.result, reply.body.status))
    ELSE LET tools == MCPClient_list_tools(list_reply).value
         IN  IF tools.type # "array" \/ tools.elems = "strings" THEN Raised
             ELSE IF tools.elems = "objects" THEN Returned(Payload("absent", FALSE))
             ELSE Returned(Payload("absent", TRUE))

InitClients ==
    /\ pc = "fn"
    /\ fn_in \in [first : HttpReplies, second : HttpReplies]
    /\ fn_out = {}
    /\ IdlePipeline

CallClient(method, result) ==
    /\ pc = "fn"
    /\ pc' = method
    /\ fn_out' = {result}
    /\ UnchangedPipeline

ApplyDiscoverAgents == CallClient("discover_agents", A2AClient_discover_agents(fn_in.first))
ApplySendTask == CallClient("send_task", A2AClient_send_task(fn_in.first))
ApplyASendTask == CallClient("asend_task", A2AClient_asend_task(fn_in.first))
ApplyGetTaskStatus == CallClient("get_task_status", A2AClient_get_task_status(fn_in.first))
ApplyGetAgentCard == CallClient("get_agent_card", A2AClient_get_agent_card(fn_in.first))
ApplyHealthCheck == CallClient("health_check", health_check(fn_in.first))
ApplyListTools == CallClient("list_tools", MCPClient_list_tools(fn_in.first))
ApplyCallTool == CallClient("call_tool", MCPClient_call_tool(fn_in.first))
ApplyGetToolSchema ==
    CallClient("get_tool_schema", MCPClient_get_tool_schema(fn_in.first, fn_in.second))

NextClients ==
    \/ ApplyDiscoverAgents
    \/ ApplySendTask
    \/ ApplyASendTask
    \/ ApplyGetTaskStatus
    \/ ApplyGetAgentCard
    \/ ApplyHealthCheck
    \/ ApplyListTools
    \/ ApplyCallTool
    \/ ApplyGetToolSchema

SpecClients == InitClients /\ [][NextClients]_vars

(***************************************************************************)
(* Two concurrent executions of process_message over one durable store.    *)
(* ChatView.post builds an AgentOrchestrator per request, so a request's   *)
(* locals are its own; every database operation is one step.  The verdicts *)
(* of the stages are nondeterministic.                                     *)
(***************************************************************************)
Requests == {1, 2}
ConcConversationIds == {0, 1}

Locals(u, c) ==
    [pc |-> "start", user_id |-> u, conversation_id |-> c, conversation |-> {},
     conversation_history |-> << >>, exec |-> 0, envelope |-> {}]

InitConcurrent ==
    /\ pc = "concurrent"
    /\ requests \in [Requests -> {Locals(u, c) : u \in UserIds, c \in ConcConversationIds}]
    /\ writers = {}
    /\ conversations = {ConversationRow(1, USER_B, 0)}
    /\ messages = <<MessageRow(2, 1, "user", <<"hello">>, "pending", << >>)>>
    /\ executions = << >>
    /\ next_id = FirstFreshId
    /\ user_message = <<"hello">>
    /\ user_id = ANONYMOUS
    /\ conversation_id = 0
    /\ conversation = {}
    /\ conversation_history = << >>
    /\ calls = << >>
    /\ faults = {}
    /\ iv = IvNone
    /\ sentiment_result = EmptyDict
    /\ intent = ""
    /\ response_text = << >>
    /\ tool_calls = << >>
    /\ agent_type_label = ""
    /\ ov = OvNone
    /\ envelope = {}
    /\ fn_in = Raise
    /\ fn_out = {}

UnchangedSingleRequest ==
    UNCHANGED <<pc, user_message, user_id, conversation_id, conversation,
                conversation_history, calls, faults, iv, sentiment_result, intent,
                response_text, tool_calls, agent_type_label, ov, envelope, fn_in, fn_out>>

\* faulty variant: save() writes the row created last, whoever created it
SaveExecutionLast(rows, id, status) ==
    [rows EXCEPT ![Len(rows)].status = status, ![Len(rows)].output_data = <<status>>]

\* exec.save(): an UPDATE of the row whose primary key the object holds
SaveExecutionById(rows, id, status) ==
    [i \in 1..Len(rows) |->
        IF rows[i].id = id
        THEN [rows[i] EXCEPT !.status = status, !.output_data = <<status>>]
        ELSE rows[i]]

\* 1. Conversation.objects.get or Conversation.objects.create
ConcEnsureConversation(r) ==
    LET me == requests[r]
        found == me.conversation_id # 0 /\ \E c \in conversations : c.id = me.conversation_id
    IN  /\ me.pc = "start"
        /\ IF ~IsUUID(me.user_id)
           THEN /\ requests' = [requests EXCEPT ![r].pc = "iv_create"]
                /\ UNCHANGED <<conversations, next_id>>
           ELSE IF found
           THEN /\ requests' = [requests EXCEPT ![r].pc = "user_msg",
                                                ![r].conversation = {me.conversation_id}]
                /\ UNCHANGED <<conversations, next_id>>
           ELSE /\ requests' = [requests EXCEPT ![r].pc = "user_msg",
                                                ![r].conversation = {next_id}]
                /\ conversations' = conversations \cup {ConversationRow(next_id, me.user_id, next_id)}
                /\ next_id' = next_id + 1
        /\ UNCHANGED <<messages, executions, writers>>
        /\ UnchangedSingleRequest

\* Message.objects.create(conversation=conversation, role="user", ...)
ConcSaveUserMessage(r) ==
    LET me == requests[r]
        cid == CHOOSE c \in me.conversation : TRUE
    IN  /\ me.pc = "user_msg"
        /\ messages' = Append(messages,
                              MessageRow(next_id, cid, "user", user_message, "pending", << >>))
        /\ writers' = writers \cup {<<next_id, r>>}
        /\ next_id' = next_id + 1
        /\ requests' = [requests EXCEPT ![r].pc = "history"]
        /\ UNCHANGED <<conversations, executions>>
        /\ UnchangedSingleRequest

\* conversation.messages.order_by("created_at").values("role", "content")[:20]
ConcBuildHistory(r) ==
    LET me == requests[r]
        cid == CHOOSE c \in me.conversation : TRUE
    IN  /\ me.pc = "history"
        /\ requests' = [requests EXCEPT ![r].pc = "iv_create",
                                        ![r].conversation_history = BuildHistory(messages, cid)]
        /\ UNCHANGED <<conversations, messages, executions, next_id, writers>>
        /\ UnchangedSingleRequest

\* the AgentExecution rows of process_message in program order: the position
\* that creates the row, its agent_type, and the position that saves it
EXECUTION_STEPS ==
    {[create |-> "iv_create", agent_type |-> "input_validation", save |-> "iv_save"],
     [create |-> "id_create", agent_type |-> "intent_detection", save |-> "id_save"],
     [create |-> "ag_create", agent_type |-> "order_tracking", save |-> "ag_save"],
     [create |-> "ov_create", agent_type |-> "output_validation", save |-> "ov_save"]}

\* AgentExecution.objects.create(agent_type=..., status="running")
ConcCreateExecution(r) ==
    \E step \in EXECUTION_STEPS :
       /\ requests[r].pc = step.create
       /\ executions' = Append(executions, ExecutionRow(next_id, step.agent_type, user_message))
       /\ writers' = writers \cup {<<next_id, r>>}
       /\ next_id' = next_id + 1
       /\ requests' = [requests EXCEPT ![r].pc = step.save, ![r].exec = next_id]
       /\ UNCHANGED <<conversations, messages>>
       /\ UnchangedSingleRequest

\* the statuses a stage's save() may write, and the positions that follow it:
\* a rejected input is answered at once and a valid one goes to the sentiment
\* check; the skill's row is saved as completed or, when the skill raised, as
\* failed; the reply follows output validation
SaveStatuses(save) == IF save = "ag_save" THEN {"completed", "failed"} ELSE {"completed"}
SaveTargets(save) ==
    CASE save = "iv_save" -> {"reply", "sentiment"}
      [] save = "id_save" -> {"ag_create"}
      [] save = "ag_save" -> {"ov_create"}
      [] OTHER -> {"reply"}

\* exec.status = ...; exec.save()
ConcSaveExecution(r) ==
    \E step \in EXECUTION_STEPS :
       /\ requests[r].pc = step.save
       /\ \E status \in SaveStatuses(step.save) :
             executions' = SaveExecutionById(executions, requests[r].exec, status)
       /\ writers' = writers \cup
             {<<executions[i].id, r>> : i \in {j \in 1..Len(executions) :
                                                  executions'[j] # executions[j]}}
       /\ \E target \in SaveTargets(step.save) :
             requests' = [requests EXCEPT ![r].pc = target]
       /\ UNCHANGED <<conversations, messages, next_id>>
       /\ UnchangedSingleRequest

\* 3. the sentiment check writes nothing: it answers at once, goes on, or raises
ConcSentiment(r) ==
    /\ requests[r].pc = "sentiment"
    /\ \E target \in {"reply", "id_create", "raised"} :
          requests' = [requests EXCEPT ![r].pc = target]
    /\ UNCHANGED <<conversations, messages, executions, next_id, writers>>
    /\ UnchangedSingleRequest

\* Message.objects.create(role="assistant", ...) when a conversation exists,
\* and _build_response
ConcReply(r) ==
    LET me == requests[r]
    IN  /\ me.pc = "reply"
        /\ IF me.conversation # {}
           THEN LET cid == CHOOSE c \in me.conversation : TRUE
                IN  /\ messages' = Append(messages,
                           MessageRow(next_id, cid, "assistant", <<"reply">>, "valid", << >>))
                    /\ writers' = writers \cup {<<next_id, r>>}
                    /\ next_id' = next_id + 1
                    /\ requests' = [requests EXCEPT ![r].pc = "done",
                                       ![r].envelope = {[conversation_id |-> cid,
                                                         message_id |-> next_id]}]
           ELSE /\ next_id' = next_id + 2
                /\ requests' = [requests EXCEPT ![r].pc = "done",
                                   ![r].envelope = {[conversation_id |-> next_id,
                                                     message_id |-> next_id + 1]}]
                /\ UNCHANGED <<messages, writers>>
        /\ UNCHANGED <<conversations, executions>>
        /\ UnchangedSingleRequest

NextConcurrent ==
    \E r \in Requests :
       \/ ConcEnsureConversation(r)
       \/ ConcSaveUserMessage(r)
       \/ ConcBuildHistory(r)
       \/ ConcCreateExecution(r)
       \/ ConcSaveExecution(r)
       \/ ConcSentiment(r)
       \/ ConcReply(r)

SpecConcurrent == InitConcurrent /\ [][NextConcurrent]_vars

(***************************************************************************)
(* The history that process_message builds from a stored conversation of   *)
(* up to MaxStored messages, and the context that detect and analyze build *)
(* from it.                                                                *)
(***************************************************************************)
MaxStored == 21
CONTEXT_TURNS == 6

\* the i-th stored message of conversation 1, turns alternating
StoredTurn(i) ==
    MessageRow(FirstFreshId + i, 1, IF i % 2 = 1 THEN "user" ELSE "assistant",
               <<"turn", ToString(i)>>, "valid", << >>)
\* a message of another conversation
ForeignTurn == MessageRow(FirstFreshId, 3, "user", <<"elsewhere">>, "valid", << >>)

\* conversation_history[-6:]
LastTurns(history) ==
    SubSeq(history, IF Len(history) > CONTEXT_TURNS THEN Len(history) - CONTEXT_TURNS + 1 ELSE 1,
           Len(history))

\* messages = [system] + conversation_history[-6:] + [{"role": "user", "content": user_query}]
ContextMessages(system, user_query, history) ==
    <<[role |-> "system", content |-> <<system>>]>>
       \o LastTurns(history)
       \o <<[role |-> "user", content |-> user_query]>>

InitHistory ==
    /\ pc = "start"
    /\ user_message = <<"where", "is", "my", "order">>
    /\ user_id = USER_A
    /\ conversation_id = 1
    /\ conversation = {}
    /\ conversation_history = << >>
    /\ conversations = {ConversationRow(1, USER_A, 0), ConversationRow(3, USER_B, 0)}
    /\ \E n \in 0..MaxStored, foreign \in {<< >>, <<ForeignTurn>>} :
          /\ messages = foreign \o [i \in 1..n |-> StoredTurn(i)]
          /\ next_id = FirstFreshId + n + 1
    /\ executions = << >>
    /\ calls = << >>
    /\ faults = {}
    /\ iv = IvNone
    /\ sentiment_result = EmptyDict
    /\ intent = ""
    /\ response_text = << >>
    /\ tool_calls = << >>
    /\ agent_type_label = ""
    /\ ov = OvNone
    /\ envelope = {}
    /\ requests = << >>
    /\ writers = {}
    /\ fn_in = Raise
    /\ fn_out = {}

\* the messages list of SentimentAnalysisAgent.analyze
HistoryAnalyze ==
    /\ pc = "iv_create"
    /\ pc' = "fn_analyze_context"
    /\ fn_out' = {ContextMessages("sentiment", user_message, conversation_history)}
    /\ UnchangedPipeline

\* the messages list of IntentDetectionAgent.detect
HistoryDetect ==
    /\ pc = "fn_analyze_context"
    /\ pc' = "fn_detect_context"
    /\ fn_out' = {ContextMessages("intent", user_message, conversation_history)}
    /\ UnchangedPipeline

NextHistory == EnsureConversation \/ HistoryAnalyze \/ HistoryDetect

SpecHistory == InitHistory /\ [][NextHistory]_vars

(***************************************************************************)
(* check_bias and the output guard's bias verdict on responses made of up  *)
(* to MaxRepeat repetitions of one bias term followed by some of the eight *)
(* distinct terms.                                                         *)
(***************************************************************************)
MaxRepeat == 8
BIAS_TERMS ==
    <<<<"always">>, <<"never">>, <<"all">>, <<"none">>, <<"every">>, <<"no", "one">>,
      <<"everybody">>, <<"nobody">> >>

RECURSIVE Concat(_)
Concat(seqs) == IF seqs = << >> THEN << >> ELSE Head(seqs) \o Concat(Tail(seqs))

\* a response: k times "always", a filler word, then the terms first..last
BiasResponse(k, first, last) ==
    [i \in 1..k |-> "always"] \o <<"is">> \o Concat(SubSeq(BIAS_TERMS, first, last))
BiasResponses ==
    {BiasResponse(k, first, last) : k \in 0..MaxRepeat, first \in 1..2,
                                    last \in 0..Len(BIAS_TERMS)}

InitBias ==
    /\ pc = "fn"
    /\ fn_in \in {Reply(t) : t \in BiasResponses}
    /\ fn_out = {}
    /\ IdlePipeline

ApplyCheckBias ==
    /\ pc = "fn"
    /\ pc' = "fn_check_bias"
    /\ fn_out' = {check_bias(fn_in.content)}
    /\ UnchangedPipeline

\* validate with a toxicity score of 0 and no entities: the bias verdict decides
ApplyBiasValidate ==
    /\ pc = "fn"
    /\ pc' = "fn_bias_validate"
    /\ fn_out' = {OutputValidationAgent_validate(fn_in.content, Reply(0), Reply(<< >>))}
    /\ UnchangedPipeline

NextBias == ApplyCheckBias \/ ApplyBiasValidate

SpecBias == InitBias /\ [][NextBias]_vars

(***************************************************************************)
(* detect_and_mask_pii on texts of up to MaxMaskLen characters and every   *)
(* list of up to MaxSpans entities that the recognizer can report: spans   *)
(* in document order that do not overlap.                                  *)
(***************************************************************************)
MaxMaskLen == 4
MaxSpans == 2
MaskTexts == {[i \in 1..n |-> ToString(i)] : n \in 0..MaxMaskLen}
MaskLabels == {"PERSON", "CARDINAL", "MONEY"}
\* non-empty spans inside a text of n characters
EntitiesOf(n) ==
    {e \in [label : MaskLabels, start_char : 0..n, end_char : 0..n] :
        e.start_char < e.end_char}
\* doc.ents: spans in document order, none overlapping another
IsDocEnts(ents) ==
    \A i \in 1..(Len(ents) - 1) : ents[i].end_char <= ents[i + 1].start_char
MaskInputs ==
    UNION {{[text |-> t, ner |-> Raise]} \cup
           {[text |-> t, ner |-> Reply(ents)] :
               ents \in {es \in SeqsUpTo(EntitiesOf(Len(t)), MaxSpans) : IsDocEnts(es)}} :
           t \in MaskTexts}

InitMask ==
    /\ pc = "fn"
    /\ fn_in \in MaskInputs
    /\ fn_out = {}
    /\ IdlePipeline

ApplyDetectAndMaskPii ==
    /\ pc = "fn"
    /\ pc' = "fn_mask"
    /\ fn_out' = {detect_and_mask_pii(fn_in.text, fn_in.ner)}
    /\ UnchangedPipeline

SpecMask == InitMask /\ [][ApplyDetectAndMaskPii]_vars

(***************************************************************************)
(* ProductSearchAgent on every extraction reply.                           *)
(***************************************************************************)
SearchQueries ==
    UserMessages \cup {<<"laptop">>, <<"cheap", "toys">>, <<"books", "under", "20">>, << >>}

InitSearch ==
    /\ pc = "fn"
    /\ fn_in \in [query : SearchQueries, extraction : ExtractionReplies]
    /\ fn_out = {}
    /\ IdlePipeline

ApplyExtractSearchParams ==
    /\ pc = "fn"
    /\ pc' = "fn_extract"
    /\ fn_out' = {_extract_search_params(fn_in.query, fn_in.extraction)}
    /\ UnchangedPipeline

\* execute with a lookup that answers and a narration that fails
ApplyProductSearchExecute ==
    /\ pc = "fn"
    /\ pc' = "fn_search"
    /\ fn_out' = {ProductSearchAgent_execute(fn_in.query, fn_in.extraction,
                                             Reply(<<"found">>), Raise)}
    /\ UnchangedPipeline

NextSearch == ApplyExtractSearchParams \/ ApplyProductSearchExecute

SpecSearch == InitSearch /\ [][NextSearch]_vars

(***************************************************************************)
(* Properties.                                                             *)
(***************************************************************************)
GUARD_ORDER == <<"llm:injection", "detoxify:input", "llm:topic">>
GuardCalls == {GUARD_ORDER[i] : i \in 1..Len(GUARD_ORDER)}
IsPrefix(a, b) == Len(a) <= Len(b) /\ SubSeq(b, 1, Len(a)) = a
InGuard == pc \in {"iv_injection", "iv_toxicity", "iv_topic", "iv_return"}
TheEnvelope == CHOOSE e \in envelope : TRUE

\* the guard's fixed message for the failure kind recorded in its details
GuardMessageFor(d) ==
    IF d.prompt_injection THEN INJECTION_MSG
    ELSE IF d.toxic THEN TOXIC_MSG
    ELSE IF d.off_topic THEN OFF_TOPIC_MSG
    ELSE VALIDATED_MSG

\* C1: InputGuard.validate runs injection, toxicity, topic in that order and
\* returns at the first failing check with that check's message: after an
\* injection verdict only the injection classifier was called, after a toxic
\* verdict the topic classifier was not called, and off_topic with the
\* off-topic message is returned only when injection and toxicity passed.
C1_GuardOrderShortCircuit ==
    /\ InGuard => IsPrefix(calls, GUARD_ORDER)
    /\ pc = "iv_return" =>
          LET d == iv.details
          IN  /\ d.prompt_injection =>
                    calls = <<"llm:injection">> /\ ~iv.is_valid /\ iv.message = INJECTION_MSG
              /\ d.toxic =>
                    /\ calls = <<"llm:injection", "detoxify:input">>
                    /\ ~d.prompt_injection /\ ~iv.is_valid /\ iv.message = TOXIC_MSG
              /\ d.off_topic =>
                    /\ calls = GUARD_ORDER
                    /\ ~d.prompt_injection /\ ~d.toxic
                    /\ ~iv.is_valid /\ iv.message = OFF_TOPIC_MSG
              /\ iv.message = OFF_TOPIC_MSG => d.off_topic
              /\ iv.is_valid <=> (~d.prompt_injection /\ ~d.toxic /\ ~d.off_topic)
              /\ iv.is_valid => calls = GUARD_ORDER /\ iv.message = VALIDATED_MSG

\* C1 witness: validate has returned the off-topic verdict
C1_Witness == pc = "iv_return" /\ iv.details.off_topic /\ iv.message = OFF_TOPIC_MSG

\* C2: when InputGuard rejects, process_message returns the guard's message
\* for the failure kind with validation_status flagged (and stores it so when
\* a conversation exists), and no sentiment analysis, intent detection, skill
\* execution, tool lookup or output validation takes place.
C2_BlockedByInputGuard ==
    /\ (pc \notin {"start", "iv_create", "iv_injection", "iv_toxicity", "iv_topic"} /\ ~iv.is_valid) =>
          /\ pc \in {"iv_return", "done"}
          /\ \A i \in 1..Len(calls) : calls[i] \in GuardCalls
          /\ \A i \in 1..Len(executions) : executions[i].agent_type = "input_validation"
          /\ iv.message = GuardMessageFor(iv.details)
          /\ iv.message \in {INJECTION_MSG, TOXIC_MSG, OFF_TOPIC_MSG}
          /\ pc = "done" =>
                /\ envelope # {}
                /\ TheEnvelope.response = iv.message
                /\ TheEnvelope.validation_status = "flagged"
                /\ TheEnvelope.tool_calls = << >>
                /\ conversation # {} =>
                      LET m == messages[Len(messages)]
                      IN  /\ m.id = TheEnvelope.message_id
                          /\ m.role = "assistant"
                          /\ m.content = iv.message
                          /\ m.validation_status = "flagged"

\* C2 witness: a request rejected for toxicity has returned
C2_Witness == pc = "done" /\ ~iv.is_valid /\ iv.details.toxic /\ envelope # {}

HasCall(name) == \E i \in 1..Len(calls) : calls[i] = name
SentimentAnalysed ==
    pc \in {"sentiment_execute", "intent_create", "intent_detect", "skill_create", "skill_run",
            "ov_create", "ov_run", "finalize", "done", "raised"} /\ iv.is_valid
ENVELOPE_KEYS ==
    {"conversation_id", "message_id", "response", "agent_type", "intent", "validation_status",
     "tool_calls", "metadata"}

\* C3 (as stated): whenever the analysis of the message yields a canned
\* response under SentimentAnalysisAgent.execute's rule (escalation gives the
\* apology-and-handoff text, otherwise high or critical frustration gives the
\* empathy text), the request ends with that response and neither intent
\* detection nor a skill agent runs.  The code gates on escalation only.
C3_SentimentShortCircuit ==
    (SentimentAnalysed /\ sentiment_result.type = "object"
        /\ SentimentAnalysisAgent_response(sentiment_result) # << >>) =>
       /\ pc \in {"sentiment_execute", "done"}
       /\ ~HasCall("llm:intent")
       /\ Len(executions) = 1
       /\ pc = "done" =>
             /\ envelope # {}
             /\ TheEnvelope.response = SentimentAnalysisAgent_response(sentiment_result)

\* C4 (as stated): whenever the analysis of the request reports
\* escalation_recommended = true, the request returns the escalation text with
\* agent_type sentiment_analysis and intent sentiment_escalation, and neither
\* intent detection nor skill dispatch happens, whatever the completion
\* service answers to the calls of the request.
C4_EscalationReturned ==
    (SentimentAnalysed /\ sentiment_result.type = "object"
        /\ Truthy(sentiment_result.escalation_recommended)) =>
       /\ pc \in {"sentiment_execute", "done"}
       /\ ~HasCall("llm:intent")
       /\ Len(executions) = 1
       /\ pc = "done" =>
             /\ envelope # {}
             /\ TheEnvelope.response = ESCALATION_MSG
             /\ TheEnvelope.agent_type = "sentiment_analysis"
             /\ TheEnvelope.intent = "sentiment_escalation"

\* the stage a collaborator call belongs to
StageOf(name) ==
    CASE name \in GuardCalls -> 1
      [] name = "llm:sentiment" -> 2
      [] name = "llm:intent" -> 3
      [] name \in {"detoxify:output", "spacy:ner"} -> 5
      [] OTHER -> 4
Count(name) == Cardinality({i \in 1..Len(calls) : calls[i] = name})
SKILL_TYPES == {_intent_to_agent_type(i) : i \in ValidIntentSet \cup {"general"}}

\* the records are created in the fixed order, each after the one before it
\* has left status running, and the collaborators are called stage by stage
StagesInOrder ==
    /\ Len(executions) <= 4
    /\ Len(executions) >= 1 => executions[1].agent_type = "input_validation"
    /\ Len(executions) >= 2 => executions[2].agent_type = "intent_detection"
    /\ Len(executions) >= 3 => executions[3].agent_type \in SKILL_TYPES
    /\ Len(executions) >= 4 => executions[4].agent_type = "output_validation"
    /\ \A i \in 1..Len(executions) : i < Len(executions) => executions[i].status # "running"
    /\ \A i, j \in 1..Len(executions) : i < j => executions[i].id < executions[j].id
    /\ \A i, j \in 1..Len(calls) : i < j => StageOf(calls[i]) <= StageOf(calls[j])
    /\ \A name \in GuardCalls \cup {"llm:intent", "detoxify:output", "spacy:ner"} : Count(name) <= 1
    /\ HasCall("llm:intent") => Len(executions) >= 2 /\ executions[1].status = "completed"
    /\ HasCall("detoxify:output") => Len(executions) = 4 /\ executions[3].status # "running"

OutputValidationFinished ==
    /\ Len(executions) = 4
    /\ executions[4].agent_type = "output_validation"
    /\ executions[4].status = "completed"
    /\ HasCall("detoxify:output")

ShortCircuited ==
    /\ Len(executions) = 1
    /\ executions[1].status = "completed"
    /\ ~HasCall("llm:intent")
    /\ \/ ~iv.is_valid
       \/ /\ HasCall("llm:sentiment")
          /\ TheEnvelope.agent_type = "sentiment_analysis"

C6_SkillFailureHandled ==
    faults = {"skill"} =>
       /\ pc \in {"ov_create", "ov_run", "finalize", "done"}
       /\ Len(executions) >= 3
       /\ executions[3].status = "failed"
       /\ executions[3].output_data = <<"error">>
       /\ pc \in {"ov_create", "ov_run", "finalize"} => response_text = APOLOGY_MSG
       /\ pc \in {"ov_run", "finalize", "done"} =>
             /\ Len(executions) = 4
             /\ executions[4].agent_type = "output_validation"
             /\ executions[4].input_data = APOLOGY_MSG
       /\ pc \in {"finalize", "done"} =>
             /\ executions[4].status = "completed"
             /\ HasCall("detoxify:output")
       /\ pc = "done" =>
             /\ envelope # {}
             /\ DOMAIN TheEnvelope = ENVELOPE_KEYS
             /\ TheEnvelope.response = DeliveredText

\* C6 witness: a request whose skill agent raised has returned its envelope
C6_Witness == pc = "done" /\ faults = {"skill"} /\ envelope # {}

\* C7 (as stated): whatever the collaborators do, process_message returns a
\* response envelope with the eight keys and no exception escapes to the
\* caller.
C7_AlwaysEnvelope ==
    /\ pc # "raised"
    /\ pc = "done" => envelope # {} /\ DOMAIN TheEnvelope = ENVELOPE_KEYS

\* C8 (as stated): if the toxicity scorer or the entity recognizer raises
\* during OutputValidationAgent.validate, validate returns is_valid = false,
\* and the safety apology is delivered with status flagged.
C8_OutputGuardFailsClosed ==
    (pc \in {"finalize", "done"} /\ ov.raised # {}) =>
       /\ ~ov.is_valid
       /\ pc = "done" =>
             /\ TheEnvelope.response = SAFETY_APOLOGY_MSG
             /\ TheEnvelope.validation_status = "flagged"

\* C9: InputValidationAgent fails open: a check whose collaborator raised
\* evaluates to safe (not injection; not toxic with an empty score map;
\* on-topic), validate returns is_valid = true with the validated message when
\* all three collaborators raised, and the request then goes on to the
\* sentiment stage.
C9_StateInv ==
    InGuard =>
       /\ faults \subseteq GuardCalls
       /\ ("llm:injection" \in faults) => ~iv.details.prompt_injection
       /\ ("detoxify:input" \in faults) => (~iv.details.toxic /\ iv.details.scores = {})
       /\ ("llm:topic" \in faults) => ~iv.details.off_topic
       /\ (pc = "iv_return" /\ faults = GuardCalls) =>
             (iv.is_valid /\ iv.message = VALIDATED_MSG /\ calls = GUARD_ORDER)
C9_InputGuardFailsOpen ==
    /\ []C9_StateInv
    /\ [][(pc = "iv_return" /\ faults = GuardCalls) =>
             (pc' = "sentiment" /\ envelope' = {} /\ executions'[1].status = "completed")]_vars

\* C9 witness: all three collaborators raised and validate returned valid
C9_Witness == pc = "iv_return" /\ faults = GuardCalls /\ iv.is_valid

NonSpace(text) == {i \in 1..Len(text) : ~IsSpace(text[i])}

\* C10 (as stated): check_prompt_injection is unsafe only when the returned
\* text is exactly the single token Y.
C10_OnlyExactY ==
    (pc = "fn_injection" /\ fn_out = {TRUE}) => fn_in.content = <<"Y">>

\* C10 (amended): check_prompt_injection is unsafe exactly when the returned
\* text, apart from leading and trailing whitespace, is the one letter Y in
\* either case; a raised call and every other text are safe.
C10_UnsafeIffStrippedY ==
    pc = "fn_injection" =>
       /\ fn_out \in {{TRUE}, {FALSE}}
       /\ fn_out = {TRUE} <=>
             /\ ~fn_in.raised
             /\ Cardinality(NonSpace(fn_in.content)) = 1
             /\ \A i \in NonSpace(fn_in.content) : fn_in.content[i] \in {"Y", "y"}

\* C10 witness: a lower-case y with leading whitespace is judged unsafe
C10_Witness == pc = "fn_injection" /\ fn_in = Reply(<<" ", "y">>) /\ fn_out = {TRUE}

OutputValidated ==
    /\ pc \in {"finalize", "done"}
    /\ Len(executions) = 4
    /\ executions[4].status = "completed"
LastMessage == messages[Len(messages)]

\* C11: whenever OutputValidationAgent.validate returns is_valid = false for
\* the skill stage's response, the envelope's response and the persisted
\* assistant Message's content are the fixed safety apology with
\* validation_status flagged, the rejected text is not what is delivered, and
\* the request completes with a persisted reply.
C11_RejectedOutputReplaced ==
    (OutputValidated /\ ~ov.is_valid) =>
       /\ ov.message \in {TOXIC_OUTPUT_MSG, BIAS_OUTPUT_MSG}
       /\ executions[4].output_data = ov.message
       /\ DeliveredText = SAFETY_APOLOGY_MSG
       /\ DeliveredStatus = "flagged"
       /\ pc = "done" =>
             /\ envelope # {}
             /\ TheEnvelope.response = SAFETY_APOLOGY_MSG
             /\ TheEnvelope.response # executions[4].input_data
             /\ TheEnvelope.validation_status = "flagged"
             /\ conversation # {} =>
                   /\ LastMessage.id = TheEnvelope.message_id
                   /\ LastMessage.role = "assistant"
                   /\ LastMessage.content = SAFETY_APOLOGY_MSG
                   /\ LastMessage.validation_status = "flagged"

\* C11 witness: a response rejected for bias has been answered and stored
C11_Witness ==
    /\ pc = "done" /\ OutputValidated /\ ov.message = BIAS_OUTPUT_MSG
    /\ conversation # {} /\ LastMessage.content = SAFETY_APOLOGY_MSG

\* the text that output validation was run on
ValidatedText == executions[4].input_data
Redacted(text) == \E i \in 1..Len(text) : text[i] = REDACTED

\* C12: whenever OutputValidationAgent.validate passes and masking changed the
\* text, the envelope's response and the persisted assistant Message's content
\* are the masked text, validation_status is valid and the details carry
\* pii_masked = true; when masking changed nothing, the response is delivered
\* unchanged with pii_masked = false.
C12_MaskedTextDelivered ==
    (OutputValidated /\ ov.is_valid) =>
       /\ ov.message = OUTPUT_PASSED_MSG
       /\ DeliveredStatus = "valid"
       /\ ov.details.pii_masked =>
             /\ ov.details.masked_response # ValidatedText
             /\ Redacted(ov.details.masked_response)
             /\ DeliveredText = ov.details.masked_response
       /\ ~ov.details.pii_masked =>
             /\ DeliveredText = ValidatedText
             /\ ~Redacted(DeliveredText)
       /\ pc = "done" =>
             /\ envelope # {}
             /\ TheEnvelope.response = DeliveredText
             /\ TheEnvelope.validation_status = "valid"
             /\ "output_validation" \in TheEnvelope.metadata
             /\ conversation # {} =>
                   /\ LastMessage.id = TheEnvelope.message_id
                   /\ LastMessage.content = DeliveredText
                   /\ LastMessage.validation_status = "valid"

\* C12 witness: a masked response has been delivered and stored
C12_Witness ==
    /\ pc = "done" /\ OutputValidated /\ ov.is_valid /\ ov.details.pii_masked
    /\ conversation # {} /\ LastMessage.content = ov.details.masked_response

InitialConversations == {ConversationRow(1, USER_B, 0)}
InitialMessages == <<MessageRow(2, 1, "user", <<"hello">>, "pending", << >>)>>
StoredIds ==
    {c.id : c \in conversations} \cup {messages[i].id : i \in 1..Len(messages)}
       \cup {executions[i].id : i \in 1..Len(executions)}

\* C13: when user_id is not a well-formed UUID, process_message creates no
\* Conversation and no Message on any path and passes an empty history to
\* every stage, while it still creates the AgentExecution records and returns
\* a freshly generated conversation_id and message_id in the envelope.
C13_AnonymousNotPersisted ==
    (user_id \notin {USER_A, USER_B} /\ pc \notin {"fn", "fn_injection", "fn_topic"}) =>
       /\ conversations = InitialConversations
       /\ messages = InitialMessages
       /\ conversation = {}
       /\ conversation_history = << >>
       /\ pc \notin {"start", "iv_create"} => Len(executions) >= 1
       /\ pc \in {"finalize"} => Len(executions) = 4
       /\ pc = "done" =>
             /\ envelope # {}
             /\ Len(executions) \in {1, 4}
             /\ TheEnvelope.conversation_id \notin StoredIds
             /\ TheEnvelope.message_id \notin StoredIds
             /\ TheEnvelope.conversation_id # TheEnvelope.message_id
             /\ TheEnvelope.conversation_id >= FirstFreshId
             /\ TheEnvelope.message_id >= FirstFreshId

\* C13 witness: an anonymous request has been delivered after all four
\* recorded stages
C13_Witness ==
    /\ pc = "done" /\ user_id = ANONYMOUS /\ envelope # {} /\ OutputValidated
    /\ messages = InitialMessages

\* the labels contained in the words of a reply, lower-cased
LabelsOfReply(text) == UNION {LabelsIn(LowerTok(text[i])) : i \in 1..Len(text)}
\* the reply is, apart from surrounding whitespace, one word that is a label
ExactLabel(text) ==
    /\ Cardinality(NonSpace(text)) = 1
    /\ \A i \in NonSpace(text) : LowerTok(text[i]) \in ValidIntentSet

\* C14: IntentDetectionAgent.detect returns one of the seven labels for every
\* raw completion output and on every error of the completion service: an
\* exact label is returned as it is, otherwise a label contained in the output,
\* otherwise general; it never returns another string.
C14_DetectReturnsLabel ==
    pc = "fn_detect" =>
       /\ \E l \in ValidIntentSet : fn_out = {l}
       /\ fn_in.raised => fn_out = {"general"}
       /\ (~fn_in.raised /\ ExactLabel(fn_in.content)) =>
             \A i \in NonSpace(fn_in.content) : fn_out = {LowerTok(fn_in.content[i])}
       /\ (~fn_in.raised /\ ~ExactLabel(fn_in.content)) =>
             IF LabelsOfReply(fn_in.content) = {} THEN fn_out = {"general"}
             ELSE fn_out \subseteq LabelsOfReply(fn_in.content)

\* C14 witness: a reply that is no label but contains one
C14_Witness ==
    /\ pc = "fn_detect" /\ fn_in = Reply(<<"billing", "payment_info.">>)
    /\ fn_out = {"payment_info"}

AssistantMessages == {i \in 1..Len(messages) : messages[i].role = "assistant"}

RowsOfType(types) == {i \in 1..Len(executions) : executions[i].agent_type \in types}

\* C16 (as stated): every stage that runs for a request (input validation,
\* sentiment check, intent detection, skill execution, output validation) is
\* recorded as exactly one AgentExecution record, whether or not a
\* Conversation exists.
C16_OneRecordPerStage ==
    /\ (\E c \in GuardCalls : HasCall(c)) => Cardinality(RowsOfType({"input_validation"})) = 1
    /\ HasCall("llm:sentiment") => Cardinality(RowsOfType({"sentiment_analysis"})) = 1
    /\ HasCall("llm:intent") => Cardinality(RowsOfType({"intent_detection"})) = 1
    /\ pc \in {"ov_create", "ov_run", "finalize"} =>
          Cardinality(RowsOfType(SKILL_TYPES)) = 1
    /\ HasCall("detoxify:output") => Cardinality(RowsOfType({"output_validation"})) = 1

\* C17 (as stated): whenever the completion's output for sentiment analysis
\* or for search-parameter extraction is not a well-formed JSON object
\* (unparseable text, or valid JSON that is a list, string or number), the
\* stage substitutes its defaults and nothing is raised to the caller of
\* process_message: the analysis in use is always an object, the search runs
\* with a query, a category and an integer max_results, and no exception
\* leaves process_message.
C17_MalformedJsonDefaulted ==
    /\ sentiment_result.type = "object"
    /\ (sentiment_result.reason = SentimentDefault.reason) => sentiment_result = SentimentDefault
    /\ pc # "raised"
    /\ (pc \in {"ov_create", "ov_run", "finalize"} /\ intent = "product_search"
           /\ faults # {"skill"}) =>
          /\ Len(tool_calls) = 1
          /\ \E q \in {user_message, <<"laptop">>, <<"robot">>},
                c \in {<<"None">>, <<"Electronics">>, <<"Toys">>}, n \in IntegerTexts :
                tool_calls[1].params = {<<"query", q>>, <<"category", c>>, <<"max_results", n>>}

\* C18: the toxicity thresholds are strict.  OutputValidationAgent.validate
\* rejects for toxicity every response whose score is greater than 0.70,
\* whatever the bias and entity checks would say, and does not reject for
\* toxicity a score of at most 0.70; InputValidationAgent.check_toxicity
\* reports toxic exactly when the score times 100 is greater than 70.
C18_StrictToxicityThresholds ==
    /\ pc = "fn_output_validate" =>
          \A r \in fn_out :
             /\ (~fn_in.raised /\ fn_in.content >= 71) =>
                   (~r.is_valid /\ r.message = TOXIC_OUTPUT_MSG /\ ~r.details.pii_masked)
             /\ (~fn_in.raised /\ fn_in.content <= 70) =>
                   /\ r.message # TOXIC_OUTPUT_MSG
                   /\ r.is_valid \/ r.message = BIAS_OUTPUT_MSG
                   /\ r.details.toxicity_score = fn_in.content
    /\ pc = "fn_input_toxicity" =>
          \A r \in fn_out :
             /\ r.toxic <=> (~fn_in.raised /\ fn_in.content >= 71)
             /\ ~fn_in.raised => r.scores = {<<"toxicity", fn_in.content>>}
    /\ pc \in {"fn_output_validate", "fn_input_toxicity"} => fn_out # {}

\* C18 witness: a plain response scored 0.71 is rejected for toxicity
C18_Witness ==
    /\ pc = "fn_output_validate"
    /\ ~fn_in.raised /\ fn_in.content = 71 /\ fn_in.text = <<"Your", "order", "has", "shipped">>
    /\ \E r \in fn_out : ~r.is_valid /\ r.message = TOXIC_OUTPUT_MSG

CLIENT_METHODS ==
    {"discover_agents", "send_task", "asend_task", "get_task_status", "get_agent_card",
     "health_check", "list_tools", "call_tool", "get_tool_schema"}
\* connection refused, an HTTP error status, or a body that is not a JSON object
BadReply(reply) == reply.kind # "ok" \/ reply.body.json # "object"
ErrorPayload(v) ==
    v.type = "object" /\ (v.error \/ v.status \in {"error", "unknown", "unreachable"})

\* C19 (as stated): every method of the A2A and MCP clients returns a value
\* for every server behaviour (connection refused, HTTP error status, body
\* that is not the expected JSON object): an empty list for discovery and
\* listing, and otherwise a payload carrying an error, unknown or unreachable
\* status; none of them raises to its caller.
C19_ClientsNeverRaise ==
    pc \in CLIENT_METHODS =>
       \A r \in fn_out :
          /\ ~r.raised
          /\ (pc \in {"discover_agents", "list_tools"} /\ BadReply(fn_in.first)) =>
                r.value = EmptyList
          /\ (pc \in CLIENT_METHODS \ {"discover_agents", "list_tools", "get_tool_schema"}
                 /\ BadReply(fn_in.first)) => ErrorPayload(r.value)
          /\ (pc = "get_tool_schema" /\ BadReply(fn_in.first) /\ BadReply(fn_in.second)) =>
                ErrorPayload(r.value)

\* the requests that wrote the record: created it or saved it
WritersOf(id) == {r \in Requests : <<id, r>> \in writers}
\* the Message and AgentExecution records written since the requests started
WrittenRecords ==
    {messages[i].id : i \in {j \in 1..Len(messages) : messages[j].id >= FirstFreshId}}
       \cup {executions[i].id : i \in 1..Len(executions)}
C20_StateInv ==
    /\ \A id \in WrittenRecords : Cardinality(WritersOf(id)) = 1
    /\ \A w \in writers : w[1] \in WrittenRecords /\ w[1] >= FirstFreshId
    /\ Cardinality(StoredIds) = Cardinality(conversations) + Len(messages) + Len(executions)
    /\ \A r \in Requests :
          requests[r].exec # 0 =>
             /\ WritersOf(requests[r].exec) = {r}
             /\ \A i \in 1..Len(executions) :
                   (executions[i].id = requests[r].exec
                       /\ requests[r].pc \notin {"iv_save", "id_save", "ag_save", "ov_save"})
                      => executions[i].status # "running"
\* a step changes the locals of one request at most
C20_LocalsPrivate ==
    \A r1, r2 \in Requests :
       (requests'[r1] # requests[r1] /\ requests'[r2] # requests[r2]) => r1 = r2

\* C20: in every interleaving of two concurrent process_message executions,
\* two requests naming the same conversation included, no Message or
\* AgentExecution record is written by both requests: every record is created
\* under a fresh identifier, a request updates only the AgentExecution
\* records it created, and a step of one request leaves the locals of the
\* other unchanged (the durable store is the only shared state).
C20_NoRecordWrittenByBoth == []C20_StateInv /\ [][C20_LocalsPrivate]_vars
\* both requests named conversation 1, ran every stage and stored their
\* messages in it, with steps of the two interleaved
C20_Witness ==
    /\ pc = "concurrent"
    /\ \A r \in Requests :
          /\ requests[r].pc = "done"
          /\ requests[r].conversation_id = 1
          /\ requests[r].conversation = {1}
          /\ Cardinality({i \in 1..Len(executions) : WritersOf(executions[i].id) = {r}}) = 4
          /\ Cardinality({i \in 1..Len(messages) : WritersOf(messages[i].id) = {r}}) = 2
    /\ \E i, j \in 1..Len(executions) :
          i < j /\ WritersOf(executions[i].id) = {2} /\ WritersOf(executions[j].id) = {1}
    /\ \E i, j \in 1..Len(executions) :
          i < j /\ WritersOf(executions[i].id) = {1} /\ WritersOf(executions[j].id) = {2}

C21_StateInv ==
    /\ \A i \in 1..Len(executions) : executions[i].status \in {"running", "completed", "failed"}
    /\ pc = "done" =>
          \A i \in 1..Len(executions) : executions[i].status \in {"completed", "failed"}
C21_Step ==
    /\ Len(executions') >= Len(executions)
    /\ \A i \in 1..Len(executions') :
          i > Len(executions) => executions'[i].status = "running"
    /\ \A i \in 1..Len(executions) :
          /\ executions'[i].id = executions[i].id
          /\ executions[i].status # "running" => executions'[i] = executions[i]
          /\ executions'[i].status # executions[i].status =>
                executions'[i].status \in {"completed", "failed"}

\* C21: every AgentExecution record that process_message creates starts in
\* status running and is completed or failed when process_message returns, on
\* the blocked, escalated, skill-failure and delivered paths alike; none is
\* left running or pending, and a record that has left running is never
\* written again.
C21_ExecutionLifecycle == []C21_StateInv /\ [][C21_Step]_vars
\* a request returned after its skill raised: four records, the skill's failed
C21_Witness ==
    /\ pc = "done"
    /\ Len(executions) = 4
    /\ executions[3].status = "failed"
    /\ \A i \in {1, 2, 4} : executions[i].status = "completed"

\* the last n elements of a sequence
LastN(seq, n) == SubSeq(seq, IF Len(seq) > n THEN Len(seq) - n + 1 ELSE 1, Len(seq))
\* the turns of the request's conversation, oldest first; the last is the
\* message of this request
TurnsOfConversation == MessagesOf(messages, conversation_id)
TurnsBeforeRequest == SubSeq(TurnsOfConversation, 1, Len(TurnsOfConversation) - 1)
ContextTurns(context) == SubSeq(context, 2, Len(context) - 1)

\* C22 (as stated): for a persisted conversation of any length, more than 20
\* stored messages included, the context handed to IntentClassifier.detect
\* and SentimentMonitor.analyze is the 6 most recent turns of the
\* conversation in chronological order (counted with or without the message
\* just stored), followed by the current user message.
C22_ContextIsSixMostRecent ==
    pc \in {"fn_analyze_context", "fn_detect_context"} =>
       \A context \in fn_out :
          /\ context[Len(context)] = [role |-> "user", content |-> user_message]
          /\ \/ ContextTurns(context) = LastN(TurnsOfConversation, 6)
             \/ ContextTurns(context) = LastN(TurnsBeforeRequest, 6)

\* the lookup functions of the tool catalogue
CATALOG_TOOLS ==
    {"lookup_customer_info", "track_order", "get_payment_info", "get_recommendations",
     "search_products"}
\* the lookups invoked while handling the request, in order
InvokedLookups == SelectSeq(calls, LAMBDA c : c \in CATALOG_TOOLS)
ToolsOf(tcalls) == [i \in 1..Len(tcalls) |-> tcalls[i].tool]

\* C23 (as stated): the tool_calls list of the response envelope and of the
\* persisted assistant Message holds exactly one {tool, params} entry for
\* each catalogue lookup invoked while handling the request and nothing
\* else; it is empty when no lookup was invoked.  (A lookup that raised is
\* left out of the count.)
C23_ToolCallsAreTheLookups ==
    (pc = "done" /\ "skill" \notin faults) =>
       /\ ToolsOf(TheEnvelope.tool_calls) = InvokedLookups
       /\ conversation # {} => LastMessage.tool_calls = TheEnvelope.tool_calls

\* the number of whole-word occurrences of the bias terms in a response,
\* every occurrence counted
Occurrences(response) ==
    Cardinality({i \in 1..Len(response) : response[i] \in BIAS_WORDS})
    + Cardinality({i \in 1..(Len(response) - 1) : response[i] = "no" /\ response[i + 1] = "one"})
Min(a, b) == IF a < b THEN a ELSE b

\* C24 (as stated): the bias score is min(0.1 n, 1.0), n being the number of
\* whole-word occurrences of always, never, all, none, every, no one,
\* everybody, nobody in the response with repeated terms counted, and
\* OutputGuard.validate rejects exactly when the score is greater than 0.7,
\* that is when the response holds at least eight such occurrences.
C24_BiasScoreCountsOccurrences ==
    /\ pc = "fn_check_bias" =>
          fn_out = {Min(10 * Occurrences(fn_in.content), 100)}
    /\ pc = "fn_bias_validate" =>
          \A r \in fn_out : ~r.is_valid <=> Occurrences(fn_in.content) >= 8

\* the PII spans among the reported entities
PiiSpans(ents) == {i \in 1..Len(ents) : ents[i].label \in PII_LABELS}
\* the text rewritten at the offsets of the original: character p (1-based)
\* gives the marker when a PII span starts at it, nothing when it lies
\* further inside a PII span, and itself otherwise
RECURSIVE MaskedFrom(_, _, _)
MaskedFrom(text, ents, p) ==
    IF p > Len(text) THEN << >>
    ELSE LET starts == \E i \in PiiSpans(ents) : ents[i].start_char = p - 1
             inside == \E i \in PiiSpans(ents) :
                          ents[i].start_char < p - 1 /\ p - 1 < ents[i].end_char
         IN  (IF starts THEN <<REDACTED>> ELSE IF inside THEN << >> ELSE <<text[p]>>)
                \o MaskedFrom(text, ents, p + 1)

\* C25: for a text and non-overlapping entity spans reported by the
\* recognizer, detect_and_mask_pii returns the text with every span labelled
\* PERSON, GPE, ORG, DATE or CARDINAL replaced by [REDACTED] and every other
\* character, spans of other labels included, unchanged and in order: going
\* through the spans in reverse offset order gives what replacing each span
\* at its offsets in the original text gives.  Without a report the text is
\* returned as it is.
C25_MaskAtOriginalOffsets ==
    pc = "fn_mask" =>
       fn_out = {IF fn_in.ner.raised THEN fn_in.text
                 ELSE MaskedFrom(fn_in.text, fn_in.ner.content, 1)}
\* two spans were masked, the first of them longer than the marker that
\* replaces it, with an unmasked character left
C25_Witness ==
    /\ pc = "fn_mask"
    /\ ~fn_in.ner.raised
    /\ fn_in.ner.content = <<Entity("PERSON", 0, 2), Entity("CARDINAL", 3, 4)>>
    /\ fn_out = {<<REDACTED, "3", REDACTED>>}

CategoryEnum == {<<Capitalize(CATEGORIES[k])>> : k \in 1..Len(CATEGORIES)} \cup {<<"None">>}
\* the reply is no completion, or its text without fences is not one JSON object
ParseFails(reply) ==
    \/ reply.raised
    \/ LET text == StripFences(reply.content)
       IN  ~(Len(text) = 1 /\ text[1] \in SearchDocs /\ SearchDoc(text[1]).type = "object")
ParamValue(pset, key) == CHOOSE v \in {p[2] : p \in {q \in pset : q[1] = key}} : TRUE

\* C26 (as stated): whatever text the extraction completion returns, the
\* parameters that ProductSearch passes to searchProducts have a category
\* that is Electronics, Clothing, Home, Books, Sports or null and a
\* max_results that defaults to 5; on a parse failure they are exactly
\* {query: the original text, category: null, max_results: 5}.
C26_SearchParamsRestricted ==
    /\ pc = "fn_extract" =>
          \A p \in fn_out :
             /\ p.category \in CategoryEnum
             /\ ParseFails(fn_in.extraction) =>
                   p = SearchParams(fn_in.query, <<"None">>, <<"5">>)
    /\ pc = "fn_search" =>
          \A r \in fn_out : \A i \in 1..Len(r.tool_calls) :
             ParamValue(r.tool_calls[i].params, "category") \in CategoryEnum

\* the text a lookup returned, as the agents hand it to _format_response
RawToolResults(tcall) ==
    LET args == IF tcall.tool \in {"lookup_customer_info", "track_order", "get_payment_info"}
                THEN CHOOSE v \in {p[2] : p \in tcall.params} : TRUE
                ELSE << >>
    IN  {<<tcall.tool>> \o args \o reply.content : reply \in {x \in ToolReplies : ~x.raised}}
C27_Step ==
    (pc = "skill_run" /\ "llm:narrate" \in faults') =>
       /\ pc' = "ov_create"
       /\ intent \in AgentIntents
       /\ Len(tool_calls') = 1
       /\ response_text' \in RawToolResults(tool_calls'[1])
       /\ executions'[Len(executions')].status = "completed"
       /\ executions'[Len(executions')].agent_type = _intent_to_agent_type(intent)

\* C27: for each of the five skill agents, when the narration completion
\* fails after the tool lookup succeeded, execute returns the raw
\* tool-result text unchanged as the response together with the recorded
\* tool call, nothing is raised, and the orchestrator records the skill
\* stage as completed, not failed.
C27_NarrationFailureFallsBack ==
    /\ [](("llm:narrate" \in faults /\ pc \in {"ov_create", "ov_run", "finalize", "done"}) =>
            /\ Len(executions) >= 3
            /\ executions[3].status = "completed"
            /\ executions[3].output_data \in RawToolResults(tool_calls[1]))
    /\ [][C27_Step]_vars
\* order tracking: the lookup answered, the narration failed
C27_Witness ==
    /\ pc = "ov_create"
    /\ "llm:narrate" \in faults
    /\ intent = "order_tracking"
    /\ response_text = <<"track_order", "ORD-10001", "found">>
    /\ tool_calls = <<[tool |-> "track_order", params |-> {<<"order_id", <<"ORD-10001">> >>}]>>
    /\ executions[3].status = "completed"

\* the request names a conversation that exists before it
NamesExisting == conversation_id # 0 /\ \E c \in InitialConversations : c.id = conversation_id

\* C28 (as stated): a process_message call by a non-anonymous user that
\* stores a message in an already existing Conversation updates that
\* Conversation (its updated timestamp advances); a Conversation is created
\* only when the request names none or one that does not exist; no
\* Conversation is ever deleted.
C28_ConversationUpdated ==
    pc # "start" =>
       /\ (pc = "done" /\ IsUUID(user_id) /\ NamesExisting) =>
             \A c \in conversations :
                c.id = conversation_id =>
                   \A c0 \in InitialConversations :
                      c0.id = c.id => c.updated_at > c0.updated_at
       /\ conversations # InitialConversations => (IsUUID(user_id) /\ ~NamesExisting)
       /\ {c.id : c \in InitialConversations} \subseteq {c.id : c \in conversations}

OwnerOf(cid) == (CHOOSE c \in conversations : c.id = cid).user_id

\* C29 (as stated): process_message writes Message records into, and reads
\* the history from, only a Conversation whose owner is the caller: a caller
\* who supplies the conversation_id of another user's conversation gets no
\* message appended to it and none of its messages as history.
C29_OnlyOwnConversation ==
    /\ \A c \in conversation : OwnerOf(c) = user_id
    /\ \A i \in 1..Len(messages) :
          messages[i].id >= FirstFreshId => OwnerOf(messages[i].conversation) = user_id
    /\ \A c \in InitialConversations :
          c.user_id # user_id =>
             \A i \in 1..Len(conversation_history) :
                \A j \in 1..Len(InitialMessages) :
                   InitialMessages[j].conversation = c.id =>
                      conversation_history[i].content # InitialMessages[j].content

\* C30 (as stated): when the output guard masks PII in a response or
\* rejects it, the original unmasked or rejected text is written to no
\* durable record of the request: the persisted assistant Message and the
\* input and output snapshots of the request's AgentExecution records hold
\* only the delivered text.  (At the last step response_text is still the
\* text the skill returned; the step writes no AgentExecution.)
C30_OriginalNotPersisted ==
    (pc = "finalize" /\ (ov.details.pii_masked \/ ~ov.is_valid)
        /\ DeliveredText # response_text) =>
       /\ \A i \in 1..Len(executions) :
             /\ executions[i].input_data # Truncate(response_text, 500)
             /\ executions[i].output_data # Truncate(response_text, 1000)
       /\ \A i \in 1..Len(messages) : messages[i].content # response_text

====
